---- MODULE Spec2Model ----
(***************************************************************************)
(* Git-aware enumeration of a directory tree (gtrmrs): the shared scanner  *)
(* collect_files_with_pruning, the tree visualizer RepoTreeVisualizer,     *)
(* the line counter LocrEngine and the copier GitMigEngine, with the       *)
(* ignore resolver git_check_ignore and the fallback matcher.              *)
(*                                                                         *)
(* Python strings are sequences of one-character strings, so that glob     *)
(* matching, stripping and path splitting are computed as the code does.   *)
(***************************************************************************)
EXTENDS Integers, Sequences, FiniteSets, TLC

(***************************************************************************)
(* Bounds of the model.                                                    *)
(***************************************************************************)
\* largest non-negative max_depth argument tried
MaxDepth == 2
\* longest .gitignore (in lines) tried
MaxRules == 2
\* largest size ceiling (--max-size, in bytes) tried
MaxSizeArg == 2
\* largest number of paths the authority reports as ignored
MaxIgnored == 1
\* longest rule file (in lines) handed to the fallback matcher on its own
MaxMatchRules == 3

(***************************************************************************)
(* String helpers (str methods and os.path functions used by the code).    *)
(***************************************************************************)
SEP == "/"

startswith(s, prefix) ==
    /\ Len(s) >= Len(prefix)
    /\ SubSeq(s, 1, Len(prefix)) = prefix

endswith(s, suffix) ==
    /\ Len(s) >= Len(suffix)
    /\ SubSeq(s, Len(s) - Len(suffix) + 1, Len(s)) = suffix

\* s[1:]
DropFirst(s) == SubSeq(s, 2, Len(s))

\* s[:-1]
DropLast(s) == SubSeq(s, 1, Len(s) - 1)

RECURSIVE rstrip(_, _)
rstrip(s, chars) ==
    IF Len(s) > 0 /\ s[Len(s)] \in chars THEN rstrip(DropLast(s), chars) ELSE s

RECURSIVE lstrip(_, _)
lstrip(s, chars) ==
    IF Len(s) > 0 /\ s[1] \in chars THEN lstrip(DropFirst(s), chars) ELSE s

Whitespace == {" ", "\t", "\n", "\r"}

\* str.strip()
strip(s) == lstrip(rstrip(s, Whitespace), Whitespace)

\* str.replace(old, new) for a single character
replace(s, old, new) == [i \in 1..Len(s) |-> IF s[i] = old THEN new ELSE s[i]]

UpperToLower ==
    [c \in {"A", "B", "D", "M", "P", "Y"} |->
        CASE c = "A" -> "a" [] c = "B" -> "b" [] c = "D" -> "d"
          [] c = "M" -> "m" [] c = "P" -> "p" [] c = "Y" -> "y"]

\* str.lower()
lower(s) ==
    [i \in 1..Len(s) |-> IF s[i] \in DOMAIN UpperToLower THEN UpperToLower[s[i]] ELSE s[i]]

\* index of the last occurrence of c in s, 0 if none (str.rfind, 1-based)
rfind(s, c) ==
    LET hits == {i \in 1..Len(s) : s[i] = c}
    IN  IF hits = {} THEN 0 ELSE CHOOSE i \in hits : \A j \in hits : j <= i

\* os.path.basename
basename(p) == SubSeq(p, rfind(p, SEP) + 1, Len(p))

\* os.path.splitext(p)[1]: the extension starts at the last dot of the base
\* name, unless only dots precede it
splitext_ext(p) ==
    LET sepIndex == rfind(p, SEP)
        dotIndex == rfind(p, ".")
    IN  IF /\ dotIndex > sepIndex
           /\ \E i \in (sepIndex + 1)..(dotIndex - 1) : p[i] # "."
        THEN SubSeq(p, dotIndex, Len(p))
        ELSE << >>

\* os.path.join of a list of names: "a/b/c"
RECURSIVE join(_)
join(segs) ==
    IF Len(segs) = 0 THEN << >>
    ELSE IF Len(segs) = 1 THEN segs[1]
    ELSE segs[1] \o <<SEP>> \o join(Tail(segs))

\* str.split("/") of a relative path without trailing separator
RECURSIVE split(_)
split(p) ==
    LET hits == {i \in 1..Len(p) : p[i] = SEP}
    IN  IF hits = {} THEN <<p>>
        ELSE LET i == CHOOSE k \in hits : \A j \in hits : k <= j
             IN  <<SubSeq(p, 1, i - 1)>> \o split(SubSeq(p, i + 1, Len(p)))

(***************************************************************************)
(* fnmatch.fnmatch on POSIX: '*' matches any run of characters (the        *)
(* separator included), '?' one character, every other character itself.   *)
(* No pattern of the model contains a bracket class.                        *)
(***************************************************************************)
RECURSIVE fnmatch(_, _)
fnmatch(name, pat) ==
    IF Len(pat) = 0 THEN Len(name) = 0
    ELSE IF pat[1] = "*"
         THEN \/ fnmatch(name, Tail(pat))
              \/ Len(name) > 0 /\ fnmatch(Tail(name), pat)
    ELSE IF Len(name) = 0 THEN FALSE
    ELSE /\ pat[1] = "?" \/ pat[1] = name[1]
         /\ fnmatch(Tail(name), Tail(pat))

(***************************************************************************)
(* Pattern catalog (core/patterns.py).                                     *)
(***************************************************************************)
EXCLUDE_DIRS ==
    << <<".", "g", "i", "t">>, <<".", "s", "v", "n">>, <<".", "h", "g">>, <<".", "i", "d", "e", "a">>, <<".", "v", "s", "c", "o", "d", "e">>, <<"_", "_", "p", "y", "c", "a", "c", "h", "e", "_", "_">>,
       <<".", "p", "y", "t", "e", "s", "t", "_", "c", "a", "c", "h", "e">>, <<".", "m", "y", "p", "y", "_", "c", "a", "c", "h", "e">>, <<".", "r", "u", "f", "f", "_", "c", "a", "c", "h", "e">>, <<"v", "e", "n", "v">>, <<".", "v", "e", "n", "v">>,
       <<"e", "n", "v">>, <<".", "t", "o", "x">>, <<".", "n", "o", "x">>, <<"*", ".", "e", "g", "g", "-", "i", "n", "f", "o">>, <<"n", "o", "d", "e", "_", "m", "o", "d", "u", "l", "e", "s">>,
       <<"b", "o", "w", "e", "r", "_", "c", "o", "m", "p", "o", "n", "e", "n", "t", "s">>, <<".", "n", "e", "x", "t">>, <<".", "n", "u", "x", "t">>, <<".", "o", "u", "t", "p", "u", "t">>, <<".", "c", "a", "c", "h", "e">>,
       <<"d", "i", "s", "t">>, <<"b", "u", "i", "l", "d">>, <<"t", "a", "r", "g", "e", "t">>, <<"b", "i", "n">>, <<"o", "b", "j">>, <<"o", "u", "t">>,
       <<".", "p", "a", "r", "c", "e", "l", "-", "c", "a", "c", "h", "e">>, <<".", "D", "S", "_", "S", "t", "o", "r", "e">>, <<"T", "h", "u", "m", "b", "s", ".", "d", "b">>, <<".", "t", "u", "r", "b", "o">> >>

EXCLUDE_FILE_PATTERNS ==
    << <<"*", ".", "l", "o", "g">>, <<"*", ".", "t", "m", "p">>, <<"*", ".", "t", "e", "m", "p">>, <<"*", ".", "b", "a", "k">>, <<"*", ".", "s", "w", "p">>, <<"*", ".", "p", "y", "c">>, <<"*", ".", "p", "y", "o">>,
       <<"*", ".", "c", "l", "a", "s", "s">>, <<"*", ".", "d", "l", "l">>, <<"*", ".", "e", "x", "e">>, <<"*", ".", "o">>, <<"*", ".", "s", "o">>, <<"*", ".", "d", "y", "l", "i", "b">> >>

PRESERVE_PATTERNS == << <<".", "e", "n", "v">>, <<".", "e", "n", "v", ".", "*">>, <<".", "g", "i", "t", "i", "g", "n", "o", "r", "e">> >>

\* gitmig/engine.py
ENV_PATTERNS == << <<".", "e", "n", "v">>, <<".", "e", "n", "v", ".", "*">>, <<"*", ".", "e", "n", "v">> >>

\* keys of LANGUAGES (locr/languages.py)
LANGUAGES ==
    { <<".", "p", "y">>, <<".", "h", "t", "m", "l">>, <<".", "c", "s", "s">>, <<".", "s", "c", "s", "s">>, <<".", "j", "s">>, <<".", "j", "s", "x">>, <<".", "t", "s">>, <<".", "t", "s", "x">>,
      <<".", "j", "s", "o", "n">>, <<".", "c">>, <<".", "h">>, <<".", "c", "p", "p">>, <<".", "c", "s">>, <<".", "j", "a", "v", "a">>, <<".", "g", "o">>, <<".", "r", "s">>,
      <<".", "p", "h", "p">>, <<".", "m", "d">>, <<".", "y", "a", "m", "l">>, <<".", "y", "m", "l">>, <<".", "t", "o", "m", "l">>, <<".", "x", "m", "l">>, <<".", "s", "q", "l">>, <<".", "s", "h">>,
      <<".", "l", "u", "a">> }

\* any(fnmatch(name, p) for p in patterns)
MatchesAny(name, patterns) ==
    \E i \in 1..Len(patterns) : fnmatch(name, patterns[i])

(***************************************************************************)
(* The directory tree under the scan root.  An entry is a record           *)
(* [path, kind, size]: path is the sequence of names below the root, kind  *)
(* is "dir", "file" or "link" (a symbolic link to a file; os.walk lists it *)
(* among the file names), size is what os.path.getsize returns.            *)
(***************************************************************************)
Entry(p, k, n) == [path |-> p, kind |-> k, size |-> n]

BaseTree ==
    { Entry(<<<<"s", "r", "c">>>>, "dir", 0),
      Entry(<<<<"s", "r", "c">>, <<"a", ".", "p", "y">>>>, "file", 2),
      Entry(<<<<"n", "o", "d", "e", "_", "m", "o", "d", "u", "l", "e", "s">>>>, "dir", 0),
      Entry(<<<<"n", "o", "d", "e", "_", "m", "o", "d", "u", "l", "e", "s">>, <<"l", "i", "b">>>>, "dir", 0),
      Entry(<<<<"n", "o", "d", "e", "_", "m", "o", "d", "u", "l", "e", "s">>, <<"l", "i", "b">>, <<"x", ".", "j", "s">>>>, "file", 1),
      Entry(<<<<".", "e", "n", "v">>>>, "file", 1),
      Entry(<<<<"d", "e", "b", "u", "g", ".", "l", "o", "g">>>>, "file", 2) }

ExtraTree ==
    { Entry(<<<<".", "e", "n", "v", ".", "l", "o", "g">>>>, "file", 2),
      Entry(<<<<"n", "o", "d", "e", "_", "m", "o", "d", "u", "l", "e", "s">>, <<".", "e", "n", "v">>>>, "file", 1),
      Entry(<<<<"l", "n", ".", "p", "y">>>>, "link", 1),
      Entry(<<<<"b", ".", "P", "Y">>>>, "file", 1) }

GitMetadata ==
    { Entry(<<<<".", "g", "i", "t">>>>, "dir", 0),
      Entry(<<<<".", "g", "i", "t">>, <<"c", "o", "n", "f", "i", "g">>>>, "file", 1) }

GitignoreFile == { Entry(<<<<".", "g", "i", "t", "i", "g", "n", "o", "r", "e">>>>, "file", 1) }

\* lines a root .gitignore is made of
GitignoreLines == { <<"*", ".", "l", "o", "g">>, <<"n", "o", "d", "e", "_", "m", "o", "d", "u", "l", "e", "s", "/">>, <<"!", "d", "e", "b", "u", "g", ".", "l", "o", "g">> }

RECURSIVE SeqsUpTo(_, _)
SeqsUpTo(S, n) ==
    IF n = 0 THEN { << >> }
    ELSE LET shorter == SeqsUpTo(S, n - 1)
         IN  shorter \cup { Append(s, x) : s \in shorter, x \in S }

\* paths the ignore authority may report as ignored
GitSubjects ==
    { <<"d", "e", "b", "u", "g", ".", "l", "o", "g">>, <<".", "e", "n", "v">>, <<".", "e", "n", "v", ".", "l", "o", "g">>, <<"s", "r", "c", "/", "a", ".", "p", "y">>, <<"s", "r", "c", "/">>, <<".", "g", "i", "t", "i", "g", "n", "o", "r", "e">> }

\* outcomes of the external call `git check-ignore --stdin -z`
GitOutcomes ==
    { "ok", "missing", "timeout", "badexit", "baddecode", "badencode", "oserror" }

Commands == { "scan", "rtree", "locr", "gitmig" }

VARIABLES
    tree,            \* the entries under the root
    gitignore_lines, \* content of the root .gitignore, when that file exists
    git_outcome,     \* how the external git call ends
    git_ignored,     \* the paths git reports as ignored when it works
    command,         \* which front-end this process runs
    max_depth,       \* max_depth argument (negative: unlimited)
    max_size,        \* GitMigEngine.max_size: {} for None, {t} for t bytes
    env_only,        \* GitMigEngine.env_only
    ext_filter,      \* GitMigEngine.ext_filter (empty when not given)
    scan_result,     \* result of collect_files_with_pruning, per raw_mode
    visible_paths,   \* RepoTreeVisualizer.visible_paths, per raw_mode
    locr_files,      \* result of LocrEngine._collect_and_filter_files, per raw_mode
    gitmig,          \* result and counters of GitMigEngine._scan_repo, per raw_mode
    calls,           \* which ignore resolver the scan consulted, per raw_mode
    matching,        \* one evaluation of the fallback matcher
    finder,          \* one GitMigEngine._find_repos call
    migration,       \* one GitMigEngine.run
    counting,        \* one LocrEngine.scan
    cli,             \* one invocation of the gitmig command line
    rerun,           \* how often a scan was repeated and what it gave first
    resolving,       \* one call of git_check_ignore on a list of paths
    reading,         \* one call of compile_gitignore_patterns on a file
    analysing        \* one call of LocrEngine._analyze_file, line by line

vars ==
    << tree, gitignore_lines, git_outcome, git_ignored, command, max_depth,
       max_size, env_only, ext_filter, scan_result, visible_paths, locr_files,
       gitmig, calls, matching, finder, migration, counting, cli, rerun,
       resolving, reading, analysing >>

\* the state of the operations a specification does not run
units == << resolving, reading, analysing >>

others == << matching, finder, migration, counting, cli, rerun, units >>

Idle == [pc |-> "idle"]

UnitsIdle == resolving = Idle /\ reading = Idle /\ analysing = Idle

env == << tree, gitignore_lines, git_outcome, git_ignored, command, max_depth,
          max_size, env_only, ext_filter >>

(***************************************************************************)
(* File system queries.                                                    *)
(***************************************************************************)
\* entries directly inside directory dirpath
Children(fs, dirpath) ==
    { e \in fs : /\ Len(e.path) = Len(dirpath) + 1
                 /\ SubSeq(e.path, 1, Len(dirpath)) = dirpath }

Name(e) == e.path[Len(e.path)]

\* os.walk: dirnames and filenames of one directory
Dirnames(fs, dirpath) == { e \in Children(fs, dirpath) : e.kind = "dir" }
Filenames(fs, dirpath) == { e \in Children(fs, dirpath) : e.kind # "dir" }

isfile(fs, path) == \E e \in fs : e.path = path /\ e.kind # "dir"

\* core/git_utils.py
is_git_repo(fs) == \E e \in fs : e.path = <<<<".", "g", "i", "t">>>> /\ e.kind = "dir"

(***************************************************************************)
(* Ignore resolver: the authoritative call.  The result is a record        *)
(* [raised, paths]: raised when an exception leaves the function.          *)
(***************************************************************************)
Returned(S) == [raised |-> FALSE, paths |-> S]
Raises == [raised |-> TRUE, paths |-> {}]

\* control characters other than tab and newline
ControlChars == { "\r", "\f" }

IsSafePath(p) == \A i \in 1..Len(p) : p[i] \notin ControlChars

git_check_ignore(relpaths) ==
    IF relpaths = {} THEN Returned({})
    ELSE LET safe_paths == { p \in relpaths : IsSafePath(p) }
         IN  IF safe_paths = {} THEN Returned({})
             ELSE CASE git_outcome = "badencode" -> Raises
                    [] git_outcome = "oserror"   -> Raises
                    [] git_outcome = "missing"   -> Returned({})
                    [] git_outcome = "timeout"   -> Returned({})
                    [] git_outcome = "badexit"   -> Returned({})
                    [] git_outcome = "baddecode" -> Raises
                    [] git_outcome = "ok"        -> Returned(safe_paths \cap git_ignored)

(***************************************************************************)
(* Ignore resolver: the fallback matcher.  A rule is a triple; the matcher *)
(* reads it as (pattern, is_negation, is_dir_only).                        *)
(***************************************************************************)
IsRuleLine(line) == Len(line) > 0 /\ line[1] # "#"

RECURSIVE compile_lines(_)
compile_lines(lines) ==
    IF Len(lines) = 0 THEN << >>
    ELSE LET line == strip(lines[1])
             is_negation == startswith(line, <<"!">>)
             l1 == IF is_negation THEN DropFirst(line) ELSE line
             is_dir_only == endswith(l1, <<SEP>>)
             l2 == IF is_dir_only THEN DropLast(l1) ELSE l1
         IN  IF IsRuleLine(line)
             THEN << <<l2, is_negation, is_dir_only>> >> \o compile_lines(Tail(lines))
             ELSE compile_lines(Tail(lines))

compile_gitignore_patterns(fs, lines) ==
    IF ~isfile(fs, <<<<".", "g", "i", "t", "i", "g", "n", "o", "r", "e">>>>) THEN << >> ELSE compile_lines(lines)

RECURSIVE match_from(_, _, _, _, _)
match_from(relpath, patterns, is_dir, i, ignored) ==
    IF i > Len(patterns) THEN ignored
    ELSE LET pattern == patterns[i][1]
             is_negation == patterns[i][2]
             is_dir_only == patterns[i][3]
             matches == \/ fnmatch(basename(relpath), pattern)
                        \/ fnmatch(relpath, pattern)
         IN  IF is_dir_only /\ ~is_dir
             THEN match_from(relpath, patterns, is_dir, i + 1, ignored)
             ELSE IF matches
             THEN match_from(relpath, patterns, is_dir, i + 1, ~is_negation)
             ELSE match_from(relpath, patterns, is_dir, i + 1, ignored)

\* the matcher with an off-by-one start: the first rule is never evaluated
simple_gitignore_match_skip_first(relpath, patterns, is_dir) ==
    match_from(relpath, patterns, is_dir, 2, FALSE)

simple_gitignore_match(relpath, patterns, is_dir) ==
    match_from(relpath, patterns, is_dir, 1, FALSE)

\* the pruning test without its loop over the default catalog
should_eager_prune_extra_only(dirname, extra_excludes) ==
    \E i \in 1..Len(extra_excludes) :
        fnmatch(dirname, rstrip(extra_excludes[i], {SEP}))

\* extra_excludes is a sequence of patterns (empty for None)
should_eager_prune(dirname, extra_excludes) ==
    \/ MatchesAny(dirname, EXCLUDE_DIRS)
    \/ \E i \in 1..Len(extra_excludes) :
          fnmatch(dirname, rstrip(extra_excludes[i], {SEP}))

(***************************************************************************)
(* collect_files_with_pruning (core/git_utils.py).                         *)
(***************************************************************************)
FileRel(e) == join(e.path)
DirRel(e) == join(e.path) \o <<SEP>>

\* phase 1: the relative paths collected from directory dirpath downwards
RECURSIVE walk_with_pruning(_, _, _, _, _)
walk_with_pruning(fs, raw_mode, extra_excludes, maxd, dirpath) ==
    LET current_depth == Len(dirpath)
        dirnames == IF raw_mode THEN Dirnames(fs, dirpath)
                    ELSE { d \in Dirnames(fs, dirpath) :
                             ~should_eager_prune(Name(d), extra_excludes) }
    IN  IF maxd >= 0 /\ current_depth >= maxd THEN {}
        ELSE { FileRel(f) : f \in Filenames(fs, dirpath) }
             \cup { DirRel(d) : d \in dirnames }
             \cup UNION { walk_with_pruning(fs, raw_mode, extra_excludes, maxd, d.path) :
                            d \in dirnames }

NoResult == [status |-> "none", all_relpaths |-> {}, ignored_set |-> {}]

collect_files_with_pruning(fs, raw_mode, extra_excludes, maxd) ==
    LET all_relpaths == walk_with_pruning(fs, raw_mode, extra_excludes, maxd, << >>)
        file_relpaths == { p \in all_relpaths : ~endswith(p, <<SEP>>) }
        checked == git_check_ignore(file_relpaths)
        patterns == compile_gitignore_patterns(fs, gitignore_lines)
        matched == { p \in all_relpaths :
                       simple_gitignore_match(rstrip(p, {SEP}), patterns,
                                              endswith(p, <<SEP>>)) }
    IN  IF ~raw_mode /\ is_git_repo(fs)
        THEN IF checked.raised
             THEN [status |-> "raised", all_relpaths |-> {}, ignored_set |-> {}]
             ELSE [status |-> "done", all_relpaths |-> all_relpaths,
                   ignored_set |-> checked.paths]
        ELSE IF ~raw_mode
        THEN [status |-> "done", all_relpaths |-> all_relpaths,
              ignored_set |-> IF Len(patterns) > 0 THEN matched ELSE {}]
        ELSE [status |-> "done", all_relpaths |-> all_relpaths, ignored_set |-> {}]

(***************************************************************************)
(* RepoTreeVisualizer (rtree/engine.py).                                   *)
(***************************************************************************)
RECURSIVE RepoTreeVisualizer_collect_candidates(_, _, _, _)
RepoTreeVisualizer_collect_candidates(fs, raw_mode, maxd, dirpath) ==
    LET depth == Len(dirpath)
        dot_git == { d \in Dirnames(fs, dirpath) : Name(d) = <<".", "g", "i", "t">> }
        active_dirs ==
            { d \in Dirnames(fs, dirpath) \ dot_git :
                raw_mode \/ ~MatchesAny(Name(d), EXCLUDE_DIRS) }
    IN  IF maxd > -1 /\ depth >= maxd THEN {}
        ELSE (IF raw_mode THEN { DirRel(d) : d \in dot_git } ELSE {})
             \cup { DirRel(d) : d \in active_dirs }
             \cup { FileRel(f) : f \in Filenames(fs, dirpath) }
             \cup UNION { RepoTreeVisualizer_collect_candidates(fs, raw_mode, maxd, d.path) :
                            d \in active_dirs }

\* the triples are (line, is_dir, anchored)
RECURSIVE rtree_compile_lines(_)
rtree_compile_lines(lines) ==
    IF Len(lines) = 0 THEN << >>
    ELSE LET line == strip(lines[1])
             is_dir == endswith(line, <<SEP>>)
             l1 == IF is_dir THEN DropLast(line) ELSE line
             anchored == startswith(l1, <<SEP>>)
             l2 == IF anchored THEN DropFirst(l1) ELSE l1
             l3 == replace(l2, "\\", SEP)
         IN  IF IsRuleLine(line)
             THEN << <<l3, is_dir, anchored>> >> \o rtree_compile_lines(Tail(lines))
             ELSE rtree_compile_lines(Tail(lines))

RepoTreeVisualizer_read_and_compile_gitignore(fs, lines) ==
    IF ~isfile(fs, <<<<".", "g", "i", "t", "i", "g", "n", "o", "r", "e">>>>) THEN << >> ELSE rtree_compile_lines(lines)

NoPaths == [status |-> "none", paths |-> {}]

\* a visualizer whose raw scan lists every file of the tree, Git's own included
RepoTreeVisualizer_scan_repo_lists_metadata(fs, raw_mode, maxd) ==
    LET all_rel == RepoTreeVisualizer_collect_candidates(fs, raw_mode, maxd, << >>)
        candidates == all_rel
        checked == git_check_ignore(candidates)
        ignore_patterns == RepoTreeVisualizer_read_and_compile_gitignore(fs, gitignore_lines)
        matched == { path \in candidates :
                       simple_gitignore_match(rstrip(path, {SEP}), ignore_patterns,
                                              endswith(path, <<SEP>>)) }
        ignored == IF is_git_repo(fs) THEN checked.paths ELSE matched
        visible == candidates \ ignored
    IN  IF raw_mode
        THEN [status |-> "done",
              paths |-> all_rel \cup { FileRel(f) : f \in { e \in fs : e.kind # "dir" } }]
        ELSE IF is_git_repo(fs) /\ checked.raised
        THEN [status |-> "raised", paths |-> {}]
        ELSE [status |-> "done",
              paths |-> IF isfile(fs, <<<<".", "g", "i", "t", "i", "g", "n", "o", "r", "e">>>>)
                        THEN visible \cup { <<".", "g", "i", "t", "i", "g", "n", "o", "r", "e">> }
                        ELSE visible]

RepoTreeVisualizer_scan_repo(fs, raw_mode, maxd) ==
    LET all_rel == RepoTreeVisualizer_collect_candidates(fs, raw_mode, maxd, << >>)
        candidates == all_rel
        checked == git_check_ignore(candidates)
        ignore_patterns == RepoTreeVisualizer_read_and_compile_gitignore(fs, gitignore_lines)
        matched == { path \in candidates :
                       simple_gitignore_match(rstrip(path, {SEP}), ignore_patterns,
                                              endswith(path, <<SEP>>)) }
        ignored == IF is_git_repo(fs) THEN checked.paths ELSE matched
        visible == candidates \ ignored
    IN  IF raw_mode THEN [status |-> "done", paths |-> all_rel]
        ELSE IF is_git_repo(fs) /\ checked.raised
        THEN [status |-> "raised", paths |-> {}]
        ELSE [status |-> "done",
              paths |-> IF isfile(fs, <<<<".", "g", "i", "t", "i", "g", "n", "o", "r", "e">>>>)
                        THEN visible \cup { <<".", "g", "i", "t", "i", "g", "n", "o", "r", "e">> }
                        ELSE visible]

(***************************************************************************)
(* LocrEngine (locr/engine.py).                                            *)
(***************************************************************************)
\* the stripped, non-comment lines of .gitignore, as appended to the catalog
RECURSIVE locr_gitignore_lines(_)
locr_gitignore_lines(lines) ==
    IF Len(lines) = 0 THEN << >>
    ELSE LET line == strip(lines[1])
         IN  IF IsRuleLine(line)
             THEN <<line>> \o locr_gitignore_lines(Tail(lines))
             ELSE locr_gitignore_lines(Tail(lines))

\* the triples are (p, is_dir, anchored)
RECURSIVE locr_compile(_)
locr_compile(patterns) ==
    IF Len(patterns) = 0 THEN << >>
    ELSE LET p == strip(patterns[1])
             is_dir == endswith(p, <<SEP>>)
             p1 == IF is_dir THEN DropLast(p) ELSE p
             anchored == startswith(p1, <<SEP>>)
             p2 == IF anchored THEN DropFirst(p1) ELSE p1
             p3 == replace(p2, "\\", SEP)
         IN  << <<p3, is_dir, anchored>> >> \o locr_compile(Tail(patterns))

LocrEngine_load_default_patterns(fs, lines) ==
    locr_compile(EXCLUDE_DIRS \o
                 (IF \E e \in fs : e.path = <<<<".", "g", "i", "t", "i", "g", "n", "o", "r", "e">>>>
                  THEN locr_gitignore_lines(lines) ELSE << >>))

\* LocrEngine.simple_patterns, set by the constructor
LocrEngine_simple_patterns(fs, raw_mode, lines) ==
    IF raw_mode THEN << >> ELSE LocrEngine_load_default_patterns(fs, lines)

LocrEngine_simple_gitignore_match(relpath, patterns) ==
    simple_gitignore_match(rstrip(relpath, {SEP}), patterns, endswith(relpath, <<SEP>>))

\* phase 1 of _collect_and_filter_files
RECURSIVE locr_walk(_, _, _, _)
locr_walk(fs, raw_mode, patterns, dirpath) ==
    LET active_dirs ==
            IF raw_mode THEN Dirnames(fs, dirpath)
            ELSE { d \in Dirnames(fs, dirpath) :
                     /\ Name(d) # <<".", "g", "i", "t">>
                     /\ ~LocrEngine_simple_gitignore_match(join(d.path), patterns) }
        tracked ==
            { f \in Filenames(fs, dirpath) :
                /\ lower(splitext_ext(Name(f))) \in LANGUAGES
                /\ ~(~raw_mode /\ LocrEngine_simple_gitignore_match(FileRel(f), patterns)) }
    IN  { FileRel(f) : f \in tracked }
        \cup UNION { locr_walk(fs, raw_mode, patterns, d.path) : d \in active_dirs }

LocrEngine_collect_and_filter_files(fs, raw_mode, lines) ==
    LET all_rel_paths ==
            locr_walk(fs, raw_mode, LocrEngine_simple_patterns(fs, raw_mode, lines), << >>)
        checked == git_check_ignore(all_rel_paths)
    IN  IF raw_mode \/ all_rel_paths = {}
        THEN [status |-> "done", paths |-> all_rel_paths]
        ELSE IF is_git_repo(fs)
        THEN IF checked.raised THEN [status |-> "raised", paths |-> {}]
             ELSE [status |-> "done", paths |-> all_rel_paths \ checked.paths]
        ELSE [status |-> "done", paths |-> all_rel_paths]

(***************************************************************************)
(* GitMigEngine (gitmig/engine.py).                                        *)
(***************************************************************************)
\* self.exclude_dirs as merged by the constructor
GitMigEngine_exclude_dirs(extra_excludes, include_git) ==
    LET stripped == [i \in 1..Len(extra_excludes) |-> strip(extra_excludes[i])]
        dir_pats == SelectSeq(stripped, LAMBDA p : endswith(p, <<SEP>>))
        merged == EXCLUDE_DIRS \o [i \in 1..Len(dir_pats) |-> rstrip(dir_pats[i], {SEP})]
    IN  IF include_git THEN SelectSeq(merged, LAMBDA p : p # <<".", "g", "i", "t">>) ELSE merged

\* self.exclude_files as merged by the constructor
GitMigEngine_exclude_files(extra_excludes) ==
    LET stripped == [i \in 1..Len(extra_excludes) |-> strip(extra_excludes[i])]
    IN  EXCLUDE_FILE_PATTERNS \o SelectSeq(stripped, LAMBDA p : ~endswith(p, <<SEP>>))

GitMigEngine_should_exclude_dir(dirname, exclude_dirs) ==
    \E i \in 1..Len(exclude_dirs) :
        fnmatch(dirname, exclude_dirs[i]) \/ dirname = exclude_dirs[i]

\* the default-exclude test switched off
GitMigEngine_should_exclude_file_never(filename, exclude_files) == FALSE

GitMigEngine_should_exclude_file(filename, exclude_files) ==
    MatchesAny(filename, exclude_files)

\* the preserve test comparing names instead of matching globs
GitMigEngine_should_preserve_exact(filename) ==
    \E i \in 1..Len(PRESERVE_PATTERNS) : filename = PRESERVE_PATTERNS[i]

GitMigEngine_should_preserve(filename) == MatchesAny(filename, PRESERVE_PATTERNS)

GitMigEngine_matches_env_pattern(filename) == MatchesAny(filename, ENV_PATTERNS)

GitMigEngine_matches_ext_filter(filename, extf) ==
    IF Len(extf) = 0 THEN TRUE
    ELSE LET ext == lstrip(lower(splitext_ext(filename)), {"."})
         IN  \E i \in 1..Len(extf) : extf[i] = ext

\* phase 1 of _scan_repo: the file entries collected, the directories pruned
RECURSIVE gitmig_walk(_, _, _)
gitmig_walk(fs, exclude_dirs, dirpath) ==
    LET kept == { d \in Dirnames(fs, dirpath) :
                    ~GitMigEngine_should_exclude_dir(Name(d), exclude_dirs) }
    IN  Filenames(fs, dirpath)
        \cup UNION { gitmig_walk(fs, exclude_dirs, d.path) : d \in kept }

RECURSIVE gitmig_pruned(_, _, _)
gitmig_pruned(fs, exclude_dirs, dirpath) ==
    LET kept == { d \in Dirnames(fs, dirpath) :
                    ~GitMigEngine_should_exclude_dir(Name(d), exclude_dirs) }
    IN  (Dirnames(fs, dirpath) \ kept)
        \cup UNION { gitmig_pruned(fs, exclude_dirs, d.path) : d \in kept }

\* number of files below a directory (the inner os.walk of an excluded path)
FilesBelow(fs, d) ==
    Cardinality({ e \in fs : /\ e.kind # "dir"
                             /\ Len(e.path) > Len(d.path)
                             /\ SubSeq(e.path, 1, Len(d.path)) = d.path })

RECURSIVE SumOver(_, _)
SumOver(S, f) ==
    IF S = {} THEN 0
    ELSE LET x == CHOOSE y \in S : TRUE IN f[x] + SumOver(S \ {x}, f)

NoCopy ==
    [status |-> "none", files_to_copy |-> {}, skipped_stats |-> << >>,
     symlinks_skipped |-> 0, large_files_skipped |-> 0, preserved_files |-> {},
     extension_stats |-> << >>]

GitMigEngine_scan_repo(fs, raw_mode, maxs, envo, extf, extra_excludes, include_git) ==
    LET exclude_dirs == GitMigEngine_exclude_dirs(extra_excludes, include_git)
        exclude_files == GitMigEngine_exclude_files(extra_excludes)
        collected == gitmig_walk(fs, exclude_dirs, << >>)
        pruned == gitmig_pruned(fs, exclude_dirs, << >>)
        skipped_stats ==
            [n \in { Name(d) : d \in pruned } |->
                SumOver({ d \in pruned : Name(d) = n },
                        [d \in pruned |-> FilesBelow(fs, d)])]
        all_relpaths == { FileRel(f) : f \in collected }
        checked == git_check_ignore(all_relpaths)
        calls_git == ~raw_mode /\ is_git_repo(fs)
        ignored_by_git == IF calls_git THEN checked.paths ELSE {}
        symlinks == { f \in collected : f.kind = "link" }
        large == { f \in collected \ symlinks :
                     \E t \in maxs : t # 0 /\ f.size > t }
        passes(f) ==
            IF envo THEN GitMigEngine_matches_env_pattern(Name(f))
            ELSE IF Len(extf) > 0 THEN GitMigEngine_matches_ext_filter(Name(f), extf)
            ELSE /\ ~(FileRel(f) \in ignored_by_git /\ ~GitMigEngine_should_preserve(Name(f)))
                 /\ ~(/\ GitMigEngine_should_exclude_file(Name(f), exclude_files)
                      /\ ~GitMigEngine_should_preserve(Name(f)))
        copied == { f \in (collected \ symlinks) \ large : passes(f) }
        ext_of(f) ==
            IF Len(splitext_ext(Name(f))) = 0 THEN <<"(", "n", "o", " ", "e", "x", "t", ")">>
            ELSE lower(splitext_ext(Name(f)))
        extension_stats ==
            [x \in { ext_of(f) : f \in copied } |->
                [count |-> Cardinality({ f \in copied : ext_of(f) = x }),
                 bytes |-> SumOver({ f \in copied : ext_of(f) = x },
                                   [f \in copied |-> f.size])]]
    IN  IF calls_git /\ checked.raised
        THEN [NoCopy EXCEPT !.status = "raised", !.skipped_stats = skipped_stats]
        ELSE [status |-> "done",
              files_to_copy |-> { <<FileRel(f), f.size>> : f \in copied },
              skipped_stats |-> skipped_stats,
              symlinks_skipped |-> Cardinality(symlinks),
              large_files_skipped |-> Cardinality(large),
              preserved_files |-> { FileRel(f) : f \in
                                      { g \in copied : GitMigEngine_should_preserve(Name(g)) } },
              extension_stats |-> extension_stats]

(***************************************************************************)
(* Initial states: a tree, the content of its .gitignore, the behaviour    *)
(* of the external git, and the configuration of the front-end that runs.  *)
(***************************************************************************)
\* which resolver a scan consults: authority is a call of git_check_ignore,
\* matcher a call of simple_gitignore_match with rules read from .gitignore
NoCalls == [authority |-> FALSE, matcher |-> FALSE, sent |-> {}]

collect_files_with_pruning_calls(fs, raw_mode, maxd) ==
    LET all_relpaths == walk_with_pruning(fs, raw_mode, << >>, maxd, << >>)
        patterns == compile_gitignore_patterns(fs, gitignore_lines)
        file_relpaths == { p \in all_relpaths : ~endswith(p, <<SEP>>) }
    IN  [authority |-> ~raw_mode /\ is_git_repo(fs),
         matcher |-> /\ ~raw_mode /\ ~is_git_repo(fs)
                     /\ Len(patterns) > 0 /\ all_relpaths # {},
         sent |-> IF ~raw_mode /\ is_git_repo(fs) THEN file_relpaths ELSE {}]

RepoTreeVisualizer_scan_repo_calls(fs, raw_mode, maxd) ==
    LET candidates == RepoTreeVisualizer_collect_candidates(fs, raw_mode, maxd, << >>)
        ignore_patterns == RepoTreeVisualizer_read_and_compile_gitignore(fs, gitignore_lines)
    IN  [authority |-> ~raw_mode /\ is_git_repo(fs),
         matcher |-> /\ ~raw_mode /\ ~is_git_repo(fs)
                     /\ Len(ignore_patterns) > 0 /\ candidates # {},
         sent |-> IF ~raw_mode /\ is_git_repo(fs) THEN candidates ELSE {}]

LocrEngine_collect_and_filter_files_calls(fs, raw_mode, lines) ==
    LET patterns == LocrEngine_simple_patterns(fs, raw_mode, lines)
        all_rel_paths == locr_walk(fs, raw_mode, patterns, << >>)
        checked_dirs == { d \in Dirnames(fs, << >>) : Name(d) # <<".", "g", "i", "t">> }
        checked_files == { f \in Filenames(fs, << >>) :
                             lower(splitext_ext(Name(f))) \in LANGUAGES }
    IN  [authority |-> ~raw_mode /\ all_rel_paths # {} /\ is_git_repo(fs),
         matcher |-> /\ ~raw_mode
                     /\ Len(patterns) > Len(EXCLUDE_DIRS)
                     /\ checked_dirs \cup checked_files # {},
         sent |-> IF ~raw_mode /\ is_git_repo(fs) THEN all_rel_paths ELSE {}]

GitMigEngine_scan_repo_calls(fs, raw_mode) ==
    [authority |-> ~raw_mode /\ is_git_repo(fs), matcher |-> FALSE,
     sent |-> IF ~raw_mode /\ is_git_repo(fs)
              THEN { FileRel(f) : f \in gitmig_walk(fs, GitMigEngine_exclude_dirs(<< >>, FALSE),
                                                     << >>) }
              ELSE {}]

NoRun(none) == [raw_mode \in BOOLEAN |-> none]

\* the environment and configuration of a front-end out of cmds, the rules
\* of .gitignore out of lines, nothing run
ScanInit(cmds, lines) ==
    /\ tree \in { ((BaseTree \cup extra) \cup meta) \cup rules :
                    extra \in { {}, ExtraTree },
                    meta \in { {}, GitMetadata },
                    rules \in { {}, GitignoreFile } }
    /\ gitignore_lines \in
          IF isfile(tree, <<<<".", "g", "i", "t", "i", "g", "n", "o", "r", "e">>>>)
          THEN SeqsUpTo(lines, MaxRules) ELSE { << >> }
    /\ git_outcome \in IF is_git_repo(tree) THEN GitOutcomes ELSE { "ok" }
    /\ git_ignored \in
          IF is_git_repo(tree) /\ git_outcome = "ok"
          THEN { S \in SUBSET GitSubjects : Cardinality(S) <= MaxIgnored }
          ELSE { {} }
    /\ command \in cmds
    /\ max_depth \in IF command \in { "scan", "rtree" } THEN (-2)..MaxDepth ELSE { -1 }
    /\ max_size \in
          IF command = "gitmig"
          THEN { {} } \cup { {t} : t \in 0..MaxSizeArg } ELSE { {} }
    /\ env_only \in IF command = "gitmig" THEN BOOLEAN ELSE { FALSE }
    /\ ext_filter \in
          IF command = "gitmig" /\ ~env_only THEN { << >>, << <<"p", "y">> >> } ELSE { << >> }
    /\ scan_result = NoRun(NoResult)
    /\ visible_paths = NoRun(NoPaths)
    /\ locr_files = NoRun(NoPaths)
    /\ gitmig = NoRun(NoCopy)
    /\ calls = NoRun(NoCalls)

Init ==
    /\ ScanInit(Commands, GitignoreLines)
    /\ matching = Idle /\ finder = Idle /\ migration = Idle
    /\ counting = Idle /\ cli = Idle /\ rerun = Idle /\ UnitsIdle

(***************************************************************************)
(* Operations: one scan by the front-end that runs, raw or not.            *)
(***************************************************************************)
\* a call of collect_files_with_pruning(root, raw_mode, None, max_depth)
CollectFilesWithPruning ==
    /\ command = "scan"
    /\ \E raw_mode \in BOOLEAN :
          /\ scan_result' = [scan_result EXCEPT ![raw_mode] =
              collect_files_with_pruning(tree, raw_mode, << >>, max_depth)]
          /\ calls' = [calls EXCEPT ![raw_mode] =
              collect_files_with_pruning_calls(tree, raw_mode, max_depth)]
    /\ UNCHANGED << env, visible_paths, locr_files, gitmig, others >>

\* RepoTreeVisualizer(repo_path, raw_mode, max_depth): the constructor scans
RepoTreeVisualizerInit ==
    /\ command = "rtree"
    /\ \E raw_mode \in BOOLEAN :
          /\ visible_paths' = [visible_paths EXCEPT ![raw_mode] =
              RepoTreeVisualizer_scan_repo(tree, raw_mode, max_depth)]
          /\ calls' = [calls EXCEPT ![raw_mode] =
              RepoTreeVisualizer_scan_repo_calls(tree, raw_mode, max_depth)]
    /\ UNCHANGED << env, scan_result, locr_files, gitmig, others >>

\* LocrEngine(repo_path, raw_mode) followed by _collect_and_filter_files()
LocrCollectAndFilterFiles ==
    /\ command = "locr"
    /\ \E raw_mode \in BOOLEAN :
          /\ locr_files' = [locr_files EXCEPT ![raw_mode] =
              LocrEngine_collect_and_filter_files(tree, raw_mode, gitignore_lines)]
          /\ calls' = [calls EXCEPT ![raw_mode] =
              LocrEngine_collect_and_filter_files_calls(tree, raw_mode, gitignore_lines)]
    /\ UNCHANGED << env, scan_result, visible_paths, gitmig, others >>

\* GitMigEngine(..., raw_mode=raw_mode)._scan_repo(repo_name, repo_path)
GitMigScanRepo ==
    /\ command = "gitmig"
    /\ \E raw_mode \in BOOLEAN :
          /\ gitmig' = [gitmig EXCEPT ![raw_mode] =
              GitMigEngine_scan_repo(tree, raw_mode, max_size, env_only, ext_filter,
                                     << >>, FALSE)]
          /\ calls' = [calls EXCEPT ![raw_mode] = GitMigEngine_scan_repo_calls(tree, raw_mode)]
    /\ UNCHANGED << env, scan_result, visible_paths, locr_files, others >>

Next ==
    \/ CollectFilesWithPruning
    \/ RepoTreeVisualizerInit
    \/ LocrCollectAndFilterFiles
    \/ GitMigScanRepo

Spec == Init /\ [][Next]_vars

(***************************************************************************)
(* Vocabulary of the properties.                                           *)
(***************************************************************************)
\* the names of a relative path, directory marker dropped
Segments(p) == split(rstrip(p, {SEP}))

\* p lies inside a directory whose bare name matches an eager-prune pattern
InsidePrunedDir(p) ==
    \E i \in 1..(Len(Segments(p)) - 1) : MatchesAny(Segments(p)[i], EXCLUDE_DIRS)

\* an ancestor directory of entry e matches an eager-prune pattern
AncestorPruned(e) ==
    \E i \in 1..(Len(e.path) - 1) : MatchesAny(e.path[i], EXCLUDE_DIRS)

\* the relative path under which a scanner lists entry e
Rel(e) == IF e.kind = "dir" THEN DirRel(e) ELSE FileRel(e)

\* candidates minus ignored set of a collect_files_with_pruning result
Visible(r) == r.all_relpaths \ r.ignored_set

\* the paths of a copy list
CopyPaths(r) == { pr[1] : pr \in r.files_to_copy }

\* C1: in a non-raw scan by collect_files_with_pruning, RepoTreeVisualizer and
\* GitMigEngine._scan_repo no path inside a directory whose name matches an
\* eager-prune pattern is a candidate, visible or in the copy list.
C1_NoPathInsidePrunedDir ==
    /\ scan_result[FALSE].status = "done" =>
          \A p \in scan_result[FALSE].all_relpaths : ~InsidePrunedDir(p)
    /\ visible_paths[FALSE].status = "done" =>
          \A p \in visible_paths[FALSE].paths : ~InsidePrunedDir(p)
    /\ gitmig[FALSE].status = "done" =>
          \A p \in CopyPaths(gitmig[FALSE]) : ~InsidePrunedDir(p)

\* a default-mode copier scan of a tree with node_modules/.env, which copied
\* the root .env and left the one inside node_modules
C1_Witness ==
    /\ command = "gitmig" /\ ~env_only /\ Len(ext_filter) = 0
    /\ gitmig[FALSE].status = "done"
    /\ Entry(<<<<"n", "o", "d", "e", "_", "m", "o", "d", "u", "l", "e", "s">>, <<".", "e", "n", "v">>>>, "file", 1) \in tree
    /\ <<".", "e", "n", "v">> \in CopyPaths(gitmig[FALSE])
    /\ <<"n", "o", "d", "e", "_", "m", "o", "d", "u", "l", "e", "s", "/", ".", "e", "n", "v">> \notin CopyPaths(gitmig[FALSE])

\* C2: in a non-raw LocrEngine scan no file inside a directory whose name
\* matches a default eager-prune pattern is counted, whatever .gitignore holds.
C2_LocrNeverDescendsPrunedDir ==
    locr_files[FALSE].status = "done" =>
        \A p \in locr_files[FALSE].paths : ~InsidePrunedDir(p)

\* the ignored set the fallback matcher of collect_files_with_pruning computes
FallbackIgnored(paths) ==
    { p \in paths :
        simple_gitignore_match(rstrip(p, {SEP}),
                               compile_gitignore_patterns(tree, gitignore_lines),
                               endswith(p, <<SEP>>)) }

\* the ignored set the fallback branch of RepoTreeVisualizer computes
RtreeFallbackIgnored(paths) ==
    { p \in paths :
        simple_gitignore_match(rstrip(p, {SEP}),
                               RepoTreeVisualizer_read_and_compile_gitignore(tree, gitignore_lines),
                               endswith(p, <<SEP>>)) }

ForcedGitignore == IF isfile(tree, <<<<".", "g", "i", "t", "i", "g", "n", "o", "r", "e">>>>) THEN { <<".", "g", "i", "t", "i", "g", "n", "o", "r", "e">> } ELSE {}

AuthorityFails == git_outcome \in { "missing", "timeout", "badexit", "baddecode" }

\* C3: with Git metadata and a failing authority call the non-raw scan does not
\* fail and uses the ignored set of the fallback matcher.
C3_FailureFallsBackToMatcher ==
    (is_git_repo(tree) /\ AuthorityFails) =>
        /\ scan_result[FALSE].status # "none" =>
              /\ scan_result[FALSE].status = "done"
              /\ scan_result[FALSE].ignored_set =
                    FallbackIgnored(scan_result[FALSE].all_relpaths)
        /\ visible_paths[FALSE].status # "none" =>
              /\ visible_paths[FALSE].status = "done"
              /\ LET candidates ==
                         RepoTreeVisualizer_collect_candidates(tree, FALSE, max_depth, << >>)
                 IN  visible_paths[FALSE].paths =
                        (candidates \ RtreeFallbackIgnored(candidates)) \cup ForcedGitignore

\* C4: git_check_ignore never raises, so every scan that calls it ends with a
\* result.
C4_ResolverNeverRaises ==
    \A raw_mode \in BOOLEAN :
        /\ scan_result[raw_mode].status # "raised"
        /\ visible_paths[raw_mode].status # "raised"
        /\ locr_files[raw_mode].status # "raised"
        /\ gitmig[raw_mode].status # "raised"

\* C5: the raw-mode visible set is a superset of the non-raw visible set of the
\* same root and configuration, for every max depth.
C5_RawSuperset ==
    /\ (scan_result[TRUE].status = "done" /\ scan_result[FALSE].status = "done") =>
          Visible(scan_result[FALSE]) \subseteq Visible(scan_result[TRUE])
    /\ (visible_paths[TRUE].status = "done" /\ visible_paths[FALSE].status = "done") =>
          visible_paths[FALSE].paths \subseteq visible_paths[TRUE].paths
    /\ (gitmig[TRUE].status = "done" /\ gitmig[FALSE].status = "done") =>
          gitmig[FALSE].files_to_copy \subseteq gitmig[TRUE].files_to_copy

\* entry e is cut off by eager pruning (non-raw) or by the hard exclusion of
\* the content of .git (tree visualizer)
PrunedInScan(e, raw_mode) ==
    IF raw_mode THEN FALSE
    ELSE \/ AncestorPruned(e)
         \/ e.kind = "dir" /\ MatchesAny(Name(e), EXCLUDE_DIRS)

PrunedInRtree(e, raw_mode) ==
    IF raw_mode THEN \E i \in 1..(Len(e.path) - 1) : e.path[i] = <<".", "g", "i", "t">>
    ELSE PrunedInScan(e, FALSE)

WithinDepth(n) == max_depth < 0 \/ n <= max_depth

\* the ignored set a non-raw tree visualizer uses
RtreeIgnored(candidates) ==
    IF is_git_repo(tree)
    THEN (IF git_outcome = "ok" THEN candidates \cap git_ignored ELSE {})
    ELSE RtreeFallbackIgnored(candidates)

\* C6: with max depth d >= 0 every path of the result has at most d segments
\* (nothing for d = 0), every entry of at most d segments that is neither
\* pruned nor ignored appears, and a negative depth is no limit.
C6_DepthBoundary ==
    \A raw_mode \in BOOLEAN :
        /\ scan_result[raw_mode].status = "done" =>
              /\ \A p \in scan_result[raw_mode].all_relpaths :
                    WithinDepth(Len(Segments(p)))
              /\ \A e \in tree :
                    (WithinDepth(Len(e.path)) /\ ~PrunedInScan(e, raw_mode)) =>
                        Rel(e) \in scan_result[raw_mode].all_relpaths
        /\ visible_paths[raw_mode].status = "done" =>
              /\ \A p \in visible_paths[raw_mode].paths :
                    WithinDepth(Len(Segments(p)))
              /\ \A e \in tree :
                    (/\ WithinDepth(Len(e.path))
                     /\ ~PrunedInRtree(e, raw_mode)
                     /\ raw_mode \/ Rel(e) \notin RtreeIgnored({ Rel(x) : x \in tree })) =>
                        Rel(e) \in visible_paths[raw_mode].paths

DefaultMode == ~env_only /\ Len(ext_filter) = 0

WithinCeiling(e) == \A t \in max_size : e.size <= t

\* C7: in the copier's default mode a non-symlink file within the size ceiling
\* whose name matches a preserve pattern is in the copy list, even when a
\* default-exclude glob matches it and the authority reports it ignored,
\* unless an ancestor directory is eagerly pruned.
C7_PreserveOverride ==
    \A raw_mode \in BOOLEAN :
        (gitmig[raw_mode].status = "done" /\ DefaultMode) =>
            \A e \in tree :
                (/\ e.kind = "file"
                 /\ WithinCeiling(e)
                 /\ MatchesAny(Name(e), PRESERVE_PATTERNS)
                 /\ ~AncestorPruned(e)) =>
                    <<FileRel(e), e.size>> \in gitmig[raw_mode].files_to_copy

\* .env.log matches a preserve and a default-exclude glob, git reports it
\* ignored, and the non-raw copy list has it
C7_Witness ==
    /\ command = "gitmig" /\ DefaultMode
    /\ gitmig[FALSE].status = "done"
    /\ is_git_repo(tree) /\ git_outcome = "ok"
    /\ <<".", "e", "n", "v", ".", "l", "o", "g">> \in git_ignored
    /\ MatchesAny(<<".", "e", "n", "v", ".", "l", "o", "g">>, EXCLUDE_FILE_PATTERNS)
    /\ <<<<".", "e", "n", "v", ".", "l", "o", "g">>, 2>> \in gitmig[FALSE].files_to_copy

ScenarioTree == BaseTree \cup GitignoreFile

ScenarioVisible == { <<"s", "r", "c", "/">>, <<"s", "r", "c", "/", "a", ".", "p", "y">>, <<".", "e", "n", "v">>, <<".", "g", "i", "t", "i", "g", "n", "o", "r", "e">> }

ScenarioWithAuthority ==
    /\ tree = ScenarioTree \cup GitMetadata
    /\ git_outcome = "ok"
    /\ git_ignored = { <<"d", "e", "b", "u", "g", ".", "l", "o", "g">> }

ScenarioWithFallback == tree = ScenarioTree

\* C8: for the tree {src/a.py, node_modules/lib/x.js, .env, .gitignore with
\* '*.log', debug.log} a non-raw scan yields {src/, src/a.py, .env, .gitignore}
\* with a working authority that reports debug.log and, identically, without
\* Git metadata through the fallback matcher.
C8_ScenarioVisibleSet ==
    (/\ gitignore_lines = << <<"*", ".", "l", "o", "g">> >>
     /\ max_depth < 0
     /\ ScenarioWithAuthority \/ ScenarioWithFallback) =>
        /\ scan_result[FALSE].status # "none" =>
              /\ scan_result[FALSE].status = "done"
              /\ Visible(scan_result[FALSE]) = ScenarioVisible
        /\ visible_paths[FALSE].status # "none" =>
              /\ visible_paths[FALSE].status = "done"
              /\ visible_paths[FALSE].paths = ScenarioVisible

\* the scenario without Git metadata, scanned by collect_files_with_pruning:
\* debug.log is in the ignored set through the fallback matcher
C8_Witness ==
    /\ command = "scan"
    /\ ScenarioWithFallback
    /\ gitignore_lines = << <<"*", ".", "l", "o", "g">> >>
    /\ max_depth < 0
    /\ scan_result[FALSE].status = "done"
    /\ <<"d", "e", "b", "u", "g", ".", "l", "o", "g">> \in scan_result[FALSE].ignored_set

\* the authority reports path p as ignored
ReportedIgnored(p) == is_git_repo(tree) /\ git_outcome = "ok" /\ p \in git_ignored

\* C9: with an extension allow-list (env-only off) every file of the copy list
\* has its extension in the list and is not reported ignored by the authority.
C9_ExtFilterAndIgnore ==
    (gitmig[FALSE].status = "done" /\ ~env_only /\ Len(ext_filter) > 0) =>
        \A p \in CopyPaths(gitmig[FALSE]) :
            /\ \E i \in 1..Len(ext_filter) :
                  ext_filter[i] = lstrip(lower(splitext_ext(p)), {"."})
            /\ ~ReportedIgnored(p)

\* the non-symlink file candidates of the copier
CopierCandidates == { e \in tree : e.kind = "file" /\ ~AncestorPruned(e) }

\* C10: for every size ceiling T, T = 0 included, every non-symlink candidate
\* larger than T is left out of the copy list and counted once in
\* large_files_skipped, and no file of size T or less is skipped for size.
C10_SizeCeiling ==
    \A raw_mode \in BOOLEAN : \A T \in max_size :
        gitmig[raw_mode].status = "done" =>
            /\ \A e \in CopierCandidates :
                  e.size > T => FileRel(e) \notin CopyPaths(gitmig[raw_mode])
            /\ gitmig[raw_mode].large_files_skipped =
                  Cardinality({ e \in CopierCandidates : e.size > T })

\* the symlinked file candidates of the copier
LinkCandidates == { e \in tree : e.kind = "link" /\ ~AncestorPruned(e) }

\* C11: no symbolic link is among the files LocrEngine.scan counts or in the
\* copy list of GitMigEngine._scan_repo, and the copier counts every symlinked
\* file candidate once in symlinks_skipped.
C11_SymlinksNeverCounted ==
    \A raw_mode \in BOOLEAN :
        /\ locr_files[raw_mode].status = "done" =>
              \A e \in tree :
                  e.kind = "link" => FileRel(e) \notin locr_files[raw_mode].paths
        /\ gitmig[raw_mode].status = "done" =>
              /\ \A e \in tree :
                    e.kind = "link" => FileRel(e) \notin CopyPaths(gitmig[raw_mode])
              /\ gitmig[raw_mode].symlinks_skipped = Cardinality(LinkCandidates)

\* C12: a non-raw scan of a root with Git metadata whose authority call
\* succeeds never evaluates the fallback matcher on rules read from the root
\* .gitignore (collect_files_with_pruning, RepoTreeVisualizer, LocrEngine).
C12_AuthorityExcludesMatcher ==
    (is_git_repo(tree) /\ git_outcome = "ok") => ~calls[FALSE].matcher

\* C14: when the root holds a regular file .gitignore, every scan of
\* RepoTreeVisualizer has ".gitignore" in visible_paths, whatever the
\* authority or the fallback matcher says about it.
C14_GitignoreAlwaysVisible ==
    \A raw_mode \in BOOLEAN :
        (visible_paths[raw_mode].status = "done" /\ isfile(tree, <<<<".", "g", "i", "t", "i", "g", "n", "o", "r", "e">>>>)) =>
            <<".", "g", "i", "t", "i", "g", "n", "o", "r", "e">> \in visible_paths[raw_mode].paths

\* a file name the copier's default mode leaves out by its catalog
DefaultExcluded(name) ==
    MatchesAny(name, EXCLUDE_FILE_PATTERNS) /\ ~MatchesAny(name, PRESERVE_PATTERNS)

\* C16: in default filter mode the copier's raw scan never calls the
\* authority and keeps the files it would report ignored, still prunes the
\* excluded directories and still leaves out default-excluded files; the raw
\* and the non-raw copy list differ only by files the authority reports ignored.
C16_CopierRawMode ==
    DefaultMode =>
        /\ gitmig[TRUE].status # "none" =>
              /\ gitmig[TRUE].status = "done"
              /\ ~calls[TRUE].authority
              /\ \A p \in CopyPaths(gitmig[TRUE]) :
                    ~InsidePrunedDir(p) /\ ~DefaultExcluded(basename(p))
              /\ max_size = {} =>
                    \A e \in CopierCandidates :
                        (ReportedIgnored(FileRel(e)) /\ ~DefaultExcluded(Name(e))) =>
                            FileRel(e) \in CopyPaths(gitmig[TRUE])
        /\ (gitmig[TRUE].status = "done" /\ gitmig[FALSE].status = "done") =>
              /\ gitmig[FALSE].files_to_copy \subseteq gitmig[TRUE].files_to_copy
              /\ \A pr \in gitmig[TRUE].files_to_copy \ gitmig[FALSE].files_to_copy :
                    ReportedIgnored(pr[1])

\* git reports src/a.py ignored: the raw copy list has it and the non-raw one
\* does not, and neither has debug.log or a file below node_modules
C16_Witness ==
    /\ command = "gitmig" /\ DefaultMode
    /\ gitmig[TRUE].status = "done" /\ gitmig[FALSE].status = "done"
    /\ ReportedIgnored(<<"s", "r", "c", "/", "a", ".", "p", "y">>)
    /\ <<"s", "r", "c", "/", "a", ".", "p", "y">> \in CopyPaths(gitmig[TRUE]) \ CopyPaths(gitmig[FALSE])
    /\ <<"d", "e", "b", "u", "g", ".", "l", "o", "g">> \notin CopyPaths(gitmig[TRUE])
    /\ <<"n", "o", "d", "e", "_", "m", "o", "d", "u", "l", "e", "s", "/", "l", "i", "b", "/", "x", ".", "j", "s">> \notin CopyPaths(gitmig[TRUE])

(***************************************************************************)
(* Operations that run on their own: while one of them runs, the scans     *)
(* above are not started.                                                  *)
(***************************************************************************)
main == << env, scan_result, visible_paths, locr_files, gitmig, calls, rerun >>

MainIdle ==
    /\ tree = {} /\ gitignore_lines = << >> /\ git_outcome = "ok" /\ git_ignored = {}
    /\ command = "none" /\ max_depth = -1 /\ max_size = {}
    /\ env_only = FALSE /\ ext_filter = << >>
    /\ scan_result = NoRun(NoResult) /\ visible_paths = NoRun(NoPaths)
    /\ locr_files = NoRun(NoPaths) /\ gitmig = NoRun(NoCopy)
    /\ calls = NoRun(NoCalls)
    /\ rerun = Idle

(***************************************************************************)
(* The fallback matcher on its own: compile_gitignore_patterns on a rule   *)
(* file, then simple_gitignore_match on one path.                          *)
(***************************************************************************)
MatchLines ==
    { <<"*", ".", "l", "o", "g">>, <<"!", "d", "e", "b", "u", "g", ".", "l", "o", "g">>, <<"s", "r", "c", "/">>, <<"!", "s", "r", "c", "/">>, <<"#", "x">>, <<" ">>, <<"s", "r", "c", "/", "*", ".", "p", "y">>, <<" ", "d", "e", "b", "u", "g", ".", "*", " ">> }

MatchPaths == { <<"d", "e", "b", "u", "g", ".", "l", "o", "g">>, <<"s", "r", "c">>, <<"s", "r", "c", "/", "a", ".", "p", "y">>, <<"s", "r", "c", "/", "d", "e", "b", "u", "g", ".", "l", "o", "g">> }

MatcherInit ==
    /\ MainIdle
    /\ matching \in
          { [pc |-> "start", lines |-> ls, relpath |-> p, is_dir |-> d,
             patterns |-> << >>, ignored |-> FALSE] :
               ls \in SeqsUpTo(MatchLines, MaxMatchRules),
               p \in MatchPaths, d \in BOOLEAN }
    /\ finder = Idle /\ migration = Idle /\ counting = Idle /\ cli = Idle /\ UnitsIdle

CompileGitignorePatterns ==
    /\ matching.pc = "start"
    /\ matching' = [matching EXCEPT
          !.pc = "compiled",
          !.patterns = compile_gitignore_patterns(GitignoreFile, matching.lines)]
    /\ UNCHANGED << main, finder, migration, counting, cli, units >>

SimpleGitignoreMatch ==
    /\ matching.pc = "compiled"
    /\ matching' = [matching EXCEPT
          !.pc = "matched",
          !.ignored = simple_gitignore_match(matching.relpath, matching.patterns,
                                             matching.is_dir)]
    /\ UNCHANGED << main, finder, migration, counting, cli, units >>

MatcherNext == CompileGitignorePatterns \/ SimpleGitignoreMatch

MatcherSpec == MatcherInit /\ [][MatcherNext]_vars

\* the rule a line of the file stands for: (glob, negation, directory-only)
RuleOf(line) ==
    LET text == strip(line)
        negation == text[1] = "!"
        body == IF negation THEN SubSeq(text, 2, Len(text)) ELSE text
        dir_only == Len(body) > 0 /\ body[Len(body)] = SEP
    IN  << IF dir_only THEN SubSeq(body, 1, Len(body) - 1) ELSE body,
           negation, dir_only >>

\* the rules of a file, in file order: blank and comment lines carry none
RulesOf(lines) ==
    LET rule_lines == SelectSeq(lines, LAMBDA l : IsRuleLine(strip(l)))
    IN  [k \in 1..Len(rule_lines) |-> RuleOf(rule_lines[k])]

\* rule applies to the path (directory-only rules skip files) and matches it
RuleHits(rule, relpath, is_dir) ==
    /\ ~(rule[3] /\ ~is_dir)
    /\ fnmatch(basename(relpath), rule[1]) \/ fnmatch(relpath, rule[1])

\* C13: the fallback matcher's verdict is that of the last rule, in file
\* order, that applies and matches: ignored unless that rule is a negation,
\* not ignored when no rule matches; directory-only rules are skipped for
\* files; a rule matches by base name or by full relative path.
C13_LastMatchWins ==
    /\ matching.pc # "start" => matching.patterns = RulesOf(matching.lines)
    /\ matching.pc = "matched" =>
          LET rules == RulesOf(matching.lines)
              hits == { k \in 1..Len(rules) :
                          RuleHits(rules[k], matching.relpath, matching.is_dir) }
          IN  IF hits = {} THEN ~matching.ignored
              ELSE LET last == CHOOSE k \in hits : \A h \in hits : h <= k
                   IN  matching.ignored = ~rules[last][2]

\* '*.log' then '!debug.log' on the file debug.log: both match, the negation
\* is last, the verdict is not ignored; 'src/' after them is skipped for a file
C13_Witness ==
    /\ matching.pc = "matched"
    /\ matching.lines = << <<"*", ".", "l", "o", "g">>, <<"!", "d", "e", "b", "u", "g", ".", "l", "o", "g">>, <<"s", "r", "c", "/">> >>
    /\ matching.relpath = <<"d", "e", "b", "u", "g", ".", "l", "o", "g">> /\ ~matching.is_dir
    /\ ~matching.ignored

(***************************************************************************)
(* GitMigEngine._find_repos (gitmig/engine.py) on its own.                 *)
(***************************************************************************)
\* code points of the characters of the directory names tried
ord ==
    ("." :> 46) @@ ("B" :> 66) @@ ("a" :> 97) @@ ("b" :> 98) @@ ("c" :> 99) @@
    ("g" :> 103) @@ ("i" :> 105) @@ ("n" :> 110) @@ ("t" :> 116)

\* Python's order on strings: by code point, a proper prefix first
RECURSIVE StrLess(_, _)
StrLess(a, b) ==
    IF Len(b) = 0 THEN FALSE
    ELSE IF Len(a) = 0 THEN TRUE
    ELSE IF a[1] # b[1] THEN ord[a[1]] < ord[b[1]]
    ELSE StrLess(Tail(a), Tail(b))

\* the listing left in the order the operating system gave it
sorted_keep(names) == names

RECURSIVE sorted(_)
sorted(names) ==
    IF Len(names) = 0 THEN << >>
    ELSE LET least == CHOOSE i \in 1..Len(names) :
                          \A j \in 1..Len(names) : ~StrLess(names[j], names[i])
             rest == [k \in 1..(Len(names) - 1) |->
                          IF k < least THEN names[k] ELSE names[k + 1]]
         IN  << names[least] >> \o sorted(rest)

\* the entries below directory dirpath, relative to it
Subtree(fs, dirpath) ==
    { Entry(SubSeq(e.path, Len(dirpath) + 1, Len(e.path)), e.kind, e.size) :
        e \in { x \in fs : /\ Len(x.path) > Len(dirpath)
                           /\ SubSeq(x.path, 1, Len(dirpath)) = dirpath } }

isdir(fs, path) == \E e \in fs : e.path = path /\ e.kind = "dir"

\* listing is os.listdir(source_dir), << >> with listdir_fails (PermissionError);
\* only_repos is a set, empty when no allow-list is given
GitMigEngine_find_repos(fs, source_name, only_repos, listing, listdir_fails) ==
    IF is_git_repo(fs) THEN << source_name >>
    ELSE IF listdir_fails THEN << >>
    ELSE SelectSeq(sorted(listing),
                   LAMBDA entry :
                       /\ isdir(fs, << entry >>)
                       /\ is_git_repo(Subtree(fs, << entry >>))
                       /\ ~(only_repos # {} /\ entry \notin only_repos))

\* a repository, a repository with a capital, a directory whose repository
\* lies one level deeper, a directory whose .git is a file
RepoA == { Entry(<<<<"a">>>>, "dir", 0), Entry(<<<<"a">>, <<".", "g", "i", "t">>>>, "dir", 0) }
RepoB == { Entry(<<<<"B">>>>, "dir", 0), Entry(<<<<"B">>, <<".", "g", "i", "t">>>>, "dir", 0) }
NestedRepo ==
    { Entry(<<<<"a", "b">>>>, "dir", 0), Entry(<<<<"a", "b">>, <<"i", "n">>>>, "dir", 0),
      Entry(<<<<"a", "b">>, <<"i", "n">>, <<".", "g", "i", "t">>>>, "dir", 0) }
GitFileDir == { Entry(<<<<"c">>>>, "dir", 0), Entry(<<<<"c">>, <<".", "g", "i", "t">>>>, "file", 1) }
SourceItselfRepo == { Entry(<<<<".", "g", "i", "t">>>>, "dir", 0) }

SourceName == <<"w", "o", "r", "k">>

\* largest allow-list (--only) tried
MaxOnly == 2

Listings(S) ==
    { f \in [1..Cardinality(S) -> S] :
        \A i, j \in 1..Cardinality(S) : i # j => f[i] # f[j] }

FinderInit ==
    /\ MainIdle
    /\ \E g1 \in { {}, RepoA }, g2 \in { {}, RepoB }, g3 \in { {}, NestedRepo },
          g4 \in { {}, GitFileDir }, g5 \in { {}, SourceItselfRepo } :
          LET fs == (((g1 \cup g2) \cup g3) \cup g4) \cup g5
          IN  \E listing \in Listings({ Name(e) : e \in Children(fs, << >>) }),
                 only \in { o \in SUBSET { <<"a">>, <<"B">>, <<"a", "b">>, <<"c">> } :
                              Cardinality(o) <= MaxOnly },
                 fails \in BOOLEAN :
                  finder = [pc |-> "start", fs |-> fs, only_repos |-> only,
                            listing |-> listing, listdir_fails |-> fails,
                            repos_found |-> << >>]
    /\ matching = Idle /\ migration = Idle /\ counting = Idle /\ cli = Idle /\ UnitsIdle

FindRepos ==
    /\ finder.pc = "start"
    /\ finder' = [finder EXCEPT
          !.pc = "found",
          !.repos_found = GitMigEngine_find_repos(finder.fs, SourceName, finder.only_repos,
                                                  finder.listing, finder.listdir_fails)]
    /\ UNCHANGED << main, matching, migration, counting, cli, units >>

FinderNext == FindRepos

FinderSpec == FinderInit /\ [][FinderNext]_vars

\* the immediate child directories of the source that hold a .git directory
ChildRepos(fs) ==
    { Name(d) : d \in { e \in Dirnames(fs, << >>) :
                          \E g \in fs : g.path = e.path \o <<<<".", "g", "i", "t">>>> /\ g.kind = "dir" } }

\* C15: _find_repos returns the source alone when it holds a .git directory,
\* whatever the allow-list; otherwise the immediate child directories holding
\* a .git directory, restricted to only_repos when given, in sorted name
\* order, none from deeper than one level (nothing when the source cannot be
\* listed).
C15_FindRepos ==
    finder.pc = "found" =>
        LET repos == finder.repos_found
            expected == IF finder.only_repos = {} THEN ChildRepos(finder.fs)
                        ELSE ChildRepos(finder.fs) \cap finder.only_repos
        IN  IF \E g \in finder.fs : g.path = <<<<".", "g", "i", "t">>>> /\ g.kind = "dir"
            THEN repos = << SourceName >>
            ELSE IF finder.listdir_fails THEN repos = << >>
            ELSE /\ { repos[i] : i \in 1..Len(repos) } = expected
                 /\ \A i \in 1..(Len(repos) - 1) : StrLess(repos[i], repos[i + 1])
                 /\ \A i \in 1..Len(repos) : \A k \in 1..Len(repos[i]) : repos[i][k] # SEP

\* a source with repositories a and B, the nested one and the .git file,
\* listed in the order a, ab, c, B: the result is B, a
C15_Witness ==
    /\ finder.pc = "found"
    /\ finder.fs = ((RepoA \cup RepoB) \cup NestedRepo) \cup GitFileDir
    /\ finder.listing = << <<"a">>, <<"a", "b">>, <<"c">>, <<"B">> >>
    /\ finder.only_repos = {} /\ ~finder.listdir_fails
    /\ finder.repos_found = << <<"B">>, <<"a">> >>

(***************************************************************************)
(* GitMigEngine.run (gitmig/engine.py): the loop over the repositories     *)
(* found, file by file, with the interrupt the user may send.              *)
(***************************************************************************)
\* most repositories in one run
MaxRepos == 2
\* most files in one repository's copy list
MaxFiles == 2

\* files of a copy list: bad marks a source file whose read raises OSError
RunFiles ==
    { [path |-> "f", size |-> 1, bad |-> FALSE],
      [path |-> "g", size |-> 2, bad |-> FALSE],
      [path |-> "x", size |-> 1, bad |-> TRUE] }

\* copy lists: sequences without repetition
CopyLists(n) ==
    { s \in SeqsUpTo(RunFiles, n) : \A i, j \in 1..Len(s) : i # j => s[i] # s[j] }

\* a destination file is a triple (repository index, path, content)
Slot(dest, idx, path) == { d \in dest : d[1] = idx /\ d[2] = path }

RunInit ==
    /\ MainIdle
    /\ \E repos \in SeqsUpTo(CopyLists(MaxFiles), MaxRepos),
          dry_run \in BOOLEAN, use_zip \in BOOLEAN, skip_existing \in BOOLEAN,
          dest \in SUBSET { <<1, "f", "old">>, <<1, "x", "old">> } :
          migration =
              [pc |-> "start", repos |-> repos, dry_run |-> dry_run,
               use_zip |-> use_zip, skip_existing |-> skip_existing,
               idx |-> 0, j |-> 0, dest |-> dest, archives |-> {}, members |-> {},
               events |-> << >>, completed |-> {},
               was_interrupted |-> FALSE, interrupted |-> FALSE,
               summary |-> "none", bytes_copied |-> 0,
               total_files_copied |-> 0, total_bytes_copied |-> 0,
               files_skipped_existing |-> 0, files_overwritten |-> 0]
    /\ matching = Idle /\ finder = Idle /\ counting = Idle /\ cli = Idle /\ UnitsIdle

RunIdle == UNCHANGED << main, matching, finder, counting, cli, units >>

\* sum of the sizes of a copy list
RECURSIVE TotalBytes(_)
TotalBytes(files) ==
    IF Len(files) = 0 THEN 0 ELSE files[1].size + TotalBytes(Tail(files))

\* run() up to the loop: no repository found returns without a summary
RunStart ==
    /\ migration.pc = "start"
    /\ migration' = IF Len(migration.repos) = 0
                    THEN [migration EXCEPT !.pc = "done"]
                    ELSE [migration EXCEPT !.pc = "repo", !.idx = 1]
    /\ RunIdle

\* top of the for loop over repos_found
RunNextRepo ==
    /\ migration.pc = "repo"
    /\ migration' = IF migration.idx > Len(migration.repos) \/ migration.was_interrupted
                    THEN [migration EXCEPT !.pc = "summary"]
                    ELSE [migration EXCEPT !.pc = "scan"]
    /\ RunIdle

\* _scan_repo of the current repository, then the branch on dry_run / use_zip
RunScanRepo ==
    /\ migration.pc = "scan"
    /\ LET files == migration.repos[migration.idx]
           scanned == [migration EXCEPT
               !.events = Append(@, [op |-> "scan", repo |-> migration.idx, file |-> ""])]
       IN  migration' =
               IF migration.dry_run
               THEN [scanned EXCEPT
                        !.pc = "repo", !.idx = @ + 1,
                        !.completed = @ \cup { migration.idx },
                        !.total_bytes_copied = @ + TotalBytes(files),
                        !.total_files_copied = @ + Len(files)]
               ELSE IF migration.use_zip
               THEN [scanned EXCEPT !.pc = "zip", !.j = 1,
                                    !.archives = @ \cup { migration.idx }]
               ELSE [scanned EXCEPT !.pc = "copy", !.j = 1, !.bytes_copied = 0]
    /\ RunIdle

\* the loop body of _copy_repo without its skip_existing branch
CopyRepoFileOverwrites ==
    /\ migration.pc = "copy"
    /\ migration.j <= Len(migration.repos[migration.idx])
    /\ LET file == migration.repos[migration.idx][migration.j]
           old == Slot(migration.dest, migration.idx, file.path)
           write == [migration EXCEPT
               !.j = @ + 1,
               !.dest = (@ \ old) \cup { <<migration.idx, file.path, "new">> },
               !.events = Append(@, [op |-> "write", repo |-> migration.idx,
                                     file |-> file.path]),
               !.bytes_copied = @ + file.size]
       IN  migration' =
               IF file.bad
               THEN [migration EXCEPT
                        !.j = @ + 1,
                        !.files_overwritten = IF old # {} THEN @ + 1 ELSE @]
               ELSE IF old # {}
               THEN [write EXCEPT !.files_overwritten = @ + 1]
               ELSE write
    /\ RunIdle

\* one iteration of the for loop of _copy_repo
CopyRepoFile ==
    /\ migration.pc = "copy"
    /\ migration.j <= Len(migration.repos[migration.idx])
    /\ LET file == migration.repos[migration.idx][migration.j]
           old == Slot(migration.dest, migration.idx, file.path)
           write == [migration EXCEPT
               !.j = @ + 1,
               !.dest = (@ \ old) \cup { <<migration.idx, file.path, "new">> },
               !.events = Append(@, [op |-> "write", repo |-> migration.idx,
                                     file |-> file.path]),
               !.bytes_copied = @ + file.size]
       IN  migration' =
               IF migration.was_interrupted
               THEN [migration EXCEPT !.j = Len(migration.repos[migration.idx]) + 1]
               ELSE IF old # {} /\ migration.skip_existing
               THEN [migration EXCEPT !.j = @ + 1, !.files_skipped_existing = @ + 1]
               ELSE IF file.bad
               THEN [migration EXCEPT
                        !.j = @ + 1,
                        !.files_overwritten = IF old # {} THEN @ + 1 ELSE @]
               ELSE IF old # {}
               THEN [write EXCEPT !.files_overwritten = @ + 1]
               ELSE write
    /\ RunIdle

\* _copy_repo returns, run() adds up
CopyRepoReturn ==
    /\ migration.pc = "copy"
    /\ migration.j > Len(migration.repos[migration.idx])
    /\ migration' = [migration EXCEPT
          !.pc = "repo", !.idx = @ + 1,
          !.completed = @ \cup { migration.idx },
          !.total_bytes_copied = @ + migration.bytes_copied,
          !.total_files_copied = @ + Len(migration.repos[migration.idx])]
    /\ RunIdle

\* bytes of the archive of repository idx (members stored as they are)
ArchiveBytes(members, files, idx) ==
    TotalBytes(SelectSeq(files, LAMBDA f : <<idx, f.path>> \in members))

\* one iteration of the loop of _zip_repo: an OSError of zf.write leaves the
\* with block and the function
ZipRepoFile ==
    /\ migration.pc = "zip"
    /\ migration.j <= Len(migration.repos[migration.idx])
    /\ LET file == migration.repos[migration.idx][migration.j]
       IN  migration' =
               IF migration.was_interrupted
               THEN [migration EXCEPT !.j = Len(migration.repos[migration.idx]) + 1]
               ELSE IF file.bad
               THEN [migration EXCEPT
                        !.pc = "repo", !.idx = @ + 1,
                        !.completed = @ \cup { migration.idx },
                        !.total_files_copied = @ + Len(migration.repos[migration.idx])]
               ELSE [migration EXCEPT
                        !.j = @ + 1,
                        !.members = @ \cup { <<migration.idx, file.path>> },
                        !.events = Append(@, [op |-> "write", repo |-> migration.idx,
                                              file |-> file.path])]
    /\ RunIdle

\* _zip_repo returns the size of the archive, run() adds up
ZipRepoReturn ==
    /\ migration.pc = "zip"
    /\ migration.j > Len(migration.repos[migration.idx])
    /\ migration' = [migration EXCEPT
          !.pc = "repo", !.idx = @ + 1,
          !.completed = @ \cup { migration.idx },
          !.total_bytes_copied = @ + ArchiveBytes(migration.members,
                                                   migration.repos[migration.idx],
                                                   migration.idx),
          !.total_files_copied = @ + Len(migration.repos[migration.idx])]
    /\ RunIdle

\* the interrupt swallowed inside the loop, which goes on
KeyboardInterruptSwallowed ==
    /\ migration.pc \in { "scan", "copy", "zip" }
    /\ ~migration.interrupted
    /\ migration' = [migration EXCEPT !.interrupted = TRUE]
    /\ RunIdle

\* KeyboardInterrupt raised inside the try of run(): neither _scan_repo nor
\* _copy_repo nor _zip_repo catches it, the except clause of run() does.  A
\* copy under way may leave its destination file partly written.
KeyboardInterrupt ==
    /\ migration.pc \in { "scan", "copy", "zip" }
    /\ ~migration.interrupted
    /\ \E partial \in BOOLEAN :
          LET files == migration.repos[migration.idx]
              copying == /\ partial /\ migration.pc = "copy"
                         /\ migration.j <= Len(files)
                         /\ ~files[migration.j].bad
                         /\ ~(/\ migration.skip_existing
                              /\ Slot(migration.dest, migration.idx,
                                      files[migration.j].path) # {})
          IN  migration' = [migration EXCEPT
                  !.pc = "summary",
                  !.was_interrupted = TRUE,
                  !.interrupted = TRUE,
                  !.dest = IF copying
                           THEN (@ \ Slot(@, migration.idx, files[migration.j].path))
                                \cup { <<migration.idx, files[migration.j].path, "partial">> }
                           ELSE @]
    /\ RunIdle

\* _print_summary at the end of run()
PrintSummary ==
    /\ migration.pc = "summary"
    /\ migration' = [migration EXCEPT
          !.pc = "done",
          !.summary = IF migration.was_interrupted THEN "interrupted" ELSE "complete"]
    /\ RunIdle

RunNext ==
    \/ RunStart
    \/ RunNextRepo
    \/ RunScanRepo
    \/ CopyRepoFile
    \/ CopyRepoReturn
    \/ ZipRepoFile
    \/ ZipRepoReturn
    \/ KeyboardInterrupt
    \/ PrintSummary

RunSpec == RunInit /\ [][RunNext]_vars

\* the repositories are taken in list order, each scanned once and before any
\* of its files is written, and one is begun only when the ones before it
\* are finished
RunInOrder ==
    LET ev == migration.events
        scans_before(b) == Cardinality({ a \in 1..(b - 1) : ev[a].op = "scan" })
    IN  /\ \A a, b \in 1..Len(ev) : a < b => ev[a].repo <= ev[b].repo
        /\ \A b \in 1..Len(ev) :
              IF ev[b].op = "scan" THEN ev[b].repo = scans_before(b) + 1
              ELSE ev[b].repo = scans_before(b)
        /\ migration.pc \in { "scan", "copy", "zip" } =>
              migration.completed = 1..(migration.idx - 1)

\* once the interrupt has arrived nothing is scanned and nothing is written
NothingAfterInterrupt ==
    migration.interrupted =>
        /\ migration'.events = migration.events
        /\ migration'.dest = migration.dest
        /\ migration'.members = migration.members
        /\ migration'.archives = migration.archives

\* a file written in full stays in the destination
WrittenFilesStay ==
    { d \in migration.dest : d[3] = "new" } \subseteq migration'.dest

\* C17: the copier takes the repositories one at a time in list order; after
\* an interrupt during the scan or copy of repository k no later repository
\* is scanned or copied and no further file is written, the files written
\* stay, and was_interrupted is true when the summary is produced.
C17_SequentialUntilInterrupt ==
    /\ [](RunInOrder /\ (migration.interrupted /\ migration.summary # "none"
                            => migration.summary = "interrupted"))
    /\ [][NothingAfterInterrupt /\ WrittenFilesStay]_vars

\* two repositories, the interrupt arrived while the first was copied after
\* its file f was written: the summary says interrupted, nothing of the
\* second repository was scanned
C17_Witness ==
    /\ migration.pc = "done" /\ migration.summary = "interrupted"
    /\ Len(migration.repos) = 2
    /\ <<1, "f", "new">> \in migration.dest
    /\ \A a \in 1..Len(migration.events) : migration.events[a].repo = 1

\* C20: an I/O error on one file does not stop the files after it: when
\* _copy_repo or _zip_repo has finished a repository, every readable file of
\* its copy list is in the destination directory or in the archive (likewise
\* every file after an unreadable one is counted by LocrEngine.scan).
C20_ErrorDoesNotStopRest ==
    \A i \in migration.completed :
        ~migration.dry_run =>
            \A k \in 1..Len(migration.repos[i]) :
                LET file == migration.repos[i][k]
                IN  ~file.bad =>
                        IF migration.use_zip THEN <<i, file.path>> \in migration.members
                        ELSE Slot(migration.dest, i, file.path) # {}

(***************************************************************************)
(* LocrEngine.scan and _analyze_file (locr/engine.py): the counting loop,  *)
(* statement by statement, with the interrupt the user may send.           *)
(***************************************************************************)
\* LANGUAGES[ext] for the extensions counted here; << >> stands for None
LangDef(ext) ==
    IF ext = <<".", "p", "y">>
    THEN [name |-> "Python", single |-> <<"#">>,
          m_start |-> <<"\"", "\"", "\"">>, m_end |-> <<"\"", "\"", "\"">>]
    ELSE IF ext = <<".", "j", "s">>
    THEN [name |-> "JavaScript", single |-> <<"/", "/">>, m_start |-> <<"/", "*">>, m_end |-> <<"*", "/">>]
    ELSE [name |-> "Markdown", single |-> << >>, m_start |-> << >>, m_end |-> << >>]

\* Python's `sub in text`
Contains(text, sub) ==
    \E k \in 0..(Len(text) - Len(sub)) : SubSeq(text, k + 1, k + Len(sub)) = sub

\* the loop over the lines of _analyze_file, from counters (blank, comment,
\* code) and the in_block flag
RECURSIVE analyze_lines(_, _, _, _, _, _)
analyze_lines(lines, lang_def, blank, comment, code, in_block) ==
    IF Len(lines) = 0 THEN << blank, comment, code >>
    ELSE LET line == lines[1]
             stripped == strip(line)
             rest == Tail(lines)
             single == lang_def.single
             m_start == lang_def.m_start
             m_end == lang_def.m_end
         IN  IF Len(stripped) = 0
             THEN analyze_lines(rest, lang_def, blank + 1, comment, code, in_block)
             ELSE IF in_block
             THEN analyze_lines(rest, lang_def, blank, comment + 1, code,
                                ~(Len(m_end) > 0 /\ Contains(line, m_end)))
             ELSE IF Len(m_start) > 0 /\ startswith(stripped, m_start)
             THEN analyze_lines(rest, lang_def, blank, comment + 1, code,
                                /\ Len(m_end) > 0
                                /\ ~Contains(SubSeq(stripped, Len(m_start) + 1,
                                                    Len(stripped)), m_end))
             ELSE IF Len(single) > 0 /\ startswith(stripped, single)
             THEN analyze_lines(rest, lang_def, blank, comment + 1, code, FALSE)
             ELSE analyze_lines(rest, lang_def, blank, comment, code + 1, FALSE)

\* a file is [path, lines, bad]: bad marks a file whose open raises OSError
LocrEngine_analyze_file(file, lang_def) ==
    IF file.bad THEN << 0, 0, 0 >>
    ELSE analyze_lines(file.lines, lang_def, 0, 0, 0, FALSE)

CountFiles ==
    { [path |-> <<"a", ".", "p", "y">>, lines |-> << <<"x", " ", "=", " ", "1">>, <<>>, <<"#", " ", "c">> >>, bad |-> FALSE],
      [path |-> <<"b", ".", "j", "s">>, lines |-> << <<"/", "*", " ", "a">>, <<"b", " ", "*", "/">>, <<"y">> >>, bad |-> FALSE],
      [path |-> <<"c", ".", "p", "y">>, lines |-> << <<"z">> >>, bad |-> TRUE] }

\* most files in one counting run
MaxCount == 3

ZeroCounts == [files |-> 0, blank |-> 0, comment |-> 0, code |-> 0]

\* results[name][field] += n on a defaultdict
Bump(results, name, field, n) ==
    LET old == IF name \in DOMAIN results THEN results[name] ELSE ZeroCounts
    IN  [x \in DOMAIN results \cup { name } |->
            IF x = name THEN [old EXCEPT ![field] = @ + n] ELSE results[x]]

CountInit ==
    /\ MainIdle
    /\ \E files \in { s \in SeqsUpTo(CountFiles, MaxCount) :
                        \A i, j \in 1..Len(s) : i # j => s[i] # s[j] },
          flag \in BOOLEAN :
          counting = [pc |-> "start", files |-> files, valid_files |-> << >>,
                      i |-> 0, bck |-> << 0, 0, 0 >>, results |-> << >>,
                      analyzed |-> {}, was_interrupted |-> flag,
                      interrupted |-> FALSE]
    /\ matching = Idle /\ finder = Idle /\ migration = Idle /\ cli = Idle /\ UnitsIdle

CountIdle == UNCHANGED << main, matching, finder, migration, cli, units >>

\* scan(): results = defaultdict(...); self.was_interrupted = False
ScanStart ==
    /\ counting.pc = "start"
    /\ counting' = [counting EXCEPT !.pc = "walk", !.was_interrupted = FALSE]
    /\ CountIdle

\* _collect_and_filter_files returns the files to count
ScanCollect ==
    /\ counting.pc = "walk"
    /\ counting' = [counting EXCEPT !.pc = "loop", !.i = 1,
                                    !.valid_files = counting.files]
    /\ CountIdle

\* top of the for loop over valid_files
ScanLoop ==
    /\ counting.pc = "loop"
    /\ counting' = IF counting.i > Len(counting.valid_files) \/ counting.was_interrupted
                   THEN [counting EXCEPT !.pc = "returned"]
                   ELSE [counting EXCEPT !.pc = "analyze"]
    /\ CountIdle

\* b, c, k = self._analyze_file(full_path, lang_def)
ScanAnalyzeFile ==
    /\ counting.pc = "analyze"
    /\ LET file == counting.valid_files[counting.i]
           ext == lower(splitext_ext(file.path))
       IN  counting' = [counting EXCEPT
               !.pc = "files",
               !.bck = LocrEngine_analyze_file(file, LangDef(ext)),
               !.analyzed = @ \cup { counting.i }]
    /\ CountIdle

\* the four additions to results[name], one statement each
ScanTally ==
    /\ counting.pc \in { "files", "blank", "comment", "code" }
    /\ LET file == counting.valid_files[counting.i]
           name == LangDef(lower(splitext_ext(file.path))).name
           n == CASE counting.pc = "files" -> 1
                  [] counting.pc = "blank" -> counting.bck[1]
                  [] counting.pc = "comment" -> counting.bck[2]
                  [] counting.pc = "code" -> counting.bck[3]
           next == CASE counting.pc = "files" -> "blank"
                     [] counting.pc = "blank" -> "comment"
                     [] counting.pc = "comment" -> "code"
                     [] counting.pc = "code" -> "loop"
       IN  counting' = [counting EXCEPT
               !.pc = next,
               !.i = IF next = "loop" THEN @ + 1 ELSE @,
               !.results = Bump(@, name, counting.pc, n)]
    /\ CountIdle

\* KeyboardInterrupt during the walk: _collect_and_filter_files catches it,
\* sets the flag and returns no file
KeyboardInterruptInWalk ==
    /\ counting.pc = "walk"
    /\ counting' = [counting EXCEPT !.pc = "loop", !.i = 1, !.valid_files = << >>,
                                    !.was_interrupted = TRUE, !.interrupted = TRUE]
    /\ CountIdle

\* the interrupt leaving scan() as an exception
KeyboardInterruptEscapes ==
    /\ counting.pc \in { "loop", "analyze", "files", "blank", "comment", "code" }
    /\ counting' = [counting EXCEPT !.pc = "raised", !.interrupted = TRUE]
    /\ CountIdle

\* KeyboardInterrupt anywhere in the loop: the except clause of scan() sets
\* the flag and scan returns results
KeyboardInterruptInScan ==
    /\ counting.pc \in { "loop", "analyze", "files", "blank", "comment", "code" }
    /\ counting' = [counting EXCEPT !.pc = "returned", !.was_interrupted = TRUE,
                                    !.interrupted = TRUE]
    /\ CountIdle

CountNext ==
    \/ ScanStart
    \/ ScanCollect
    \/ ScanLoop
    \/ ScanAnalyzeFile
    \/ ScanTally
    \/ KeyboardInterruptInWalk
    \/ KeyboardInterruptInScan

CountSpec == CountInit /\ [][CountNext]_vars

\* the totals of the files with index in I, for language name
CountsOver(I, name) ==
    LET mine == { i \in I :
                    LangDef(lower(splitext_ext(counting.valid_files[i].path))).name = name }
        part(k) == SumOver(mine,
                     [i \in mine |->
                        LocrEngine_analyze_file(
                            counting.valid_files[i],
                            LangDef(lower(splitext_ext(counting.valid_files[i].path))))[k]])
    IN  [files |-> Cardinality(mine), blank |-> part(1), comment |-> part(2),
         code |-> part(3)]

\* C18: an interrupt during the walk or the per-file analysis makes scan
\* return normally with was_interrupted true and with counts that cover only
\* files whose analysis completed before it; a scan without interrupt returns
\* with was_interrupted false (and the counts of all files).
C18_InterruptedScanReturns ==
    /\ counting.pc # "raised"
    /\ counting.pc = "returned" =>
          /\ counting.was_interrupted = counting.interrupted
          /\ \A name \in DOMAIN counting.results :
                LET got == counting.results[name]
                    most == CountsOver(counting.analyzed, name)
                IN  /\ got.files <= most.files /\ got.blank <= most.blank
                    /\ got.comment <= most.comment /\ got.code <= most.code
          /\ ~counting.interrupted =>
                \A i \in 1..Len(counting.files) :
                    LET name == LangDef(lower(splitext_ext(counting.files[i].path))).name
                    IN  /\ name \in DOMAIN counting.results
                        /\ counting.results[name] =
                              CountsOver(1..Len(counting.files), name)

\* the interrupt arrived after the first of three files was counted and
\* before the analysis of the second completed: scan returned, flagged, with
\* the counts of a.py only
C18_Witness ==
    /\ counting.pc = "returned" /\ counting.was_interrupted
    /\ Len(counting.valid_files) = 3
    /\ counting.valid_files[1].path = <<"a", ".", "p", "y">>
    /\ counting.analyzed = { 1 }
    /\ counting.results = ("Python" :> [files |-> 1, blank |-> 1, comment |-> 1, code |-> 1])

(***************************************************************************)
(* The gitmig command line (gitmig/cli.py run): validation, creation of    *)
(* the destination, construction of the engine, the migration.             *)
(***************************************************************************)
\* most positional arguments given
MaxPaths == 3

\* the keyword arguments run() passes to GitMigEngine
CliKeywords ==
    { "dry_run", "use_zip", "show_stats", "extra_excludes", "include_git", "verbose",
      "quiet", "max_size", "only_repos", "force", "stats_all", "skip_existing",
      "env_only", "ext_filter", "raw_mode", "check_git_size" }

\* the keyword parameters of GitMigEngine.__init__
InitParameters ==
    { "source_dir", "dest_dir", "dry_run", "use_zip", "show_stats", "extra_excludes",
      "include_git", "verbose", "quiet", "max_size", "only_repos", "force",
      "stats_all", "skip_existing", "env_only", "ext_filter", "raw_mode" }

\* a call with a keyword the function does not declare raises TypeError
GitMigEngine_init_accepts(keywords) == keywords \subseteq InitParameters

Exit(status, created) ==
    [pc |-> "exited", exit_status |-> status, dest_created |-> created,
     engine_constructed |-> FALSE, migration_run |-> FALSE]

\* args: [paths, git_size, max_size, source_is_dir, dest, dest_in_source,
\* dry_run, makedirs_fails]; max_size is "none", "valid" or "invalid"; dest is
\* "absent", "dir" or "file"
gitmig_cli_run(args) ==
    LET has_dest == (args.paths = 1 /\ ~args.git_size) \/ args.paths = 2
        source_given == (args.paths = 1 /\ args.git_size) \/ args.paths = 2
        creates == has_dest /\ ~args.dry_run /\ args.dest = "absent"
    IN  IF args.paths = 0 /\ ~args.git_size THEN Exit(1, FALSE)
        ELSE IF args.paths > 2 THEN Exit(1, FALSE)
        ELSE IF args.max_size = "invalid" THEN Exit(1, FALSE)
        ELSE IF source_given /\ ~args.source_is_dir THEN Exit(1, FALSE)
        ELSE IF has_dest /\ args.dest = "file" THEN Exit(1, FALSE)
        ELSE IF has_dest /\ ~args.git_size /\ args.dest_in_source THEN Exit(1, FALSE)
        ELSE IF creates /\ args.makedirs_fails THEN Exit(1, FALSE)
        ELSE IF ~GitMigEngine_init_accepts(CliKeywords) THEN Exit(1, creates)
        ELSE [pc |-> "exited", exit_status |-> 0, dest_created |-> creates,
              engine_constructed |-> TRUE, migration_run |-> TRUE]

CliArgs ==
    { a \in [paths : 0..MaxPaths, git_size : BOOLEAN,
             max_size : { "none", "valid", "invalid" },
             source_is_dir : BOOLEAN, dest : { "absent", "dir", "file" },
             dest_in_source : BOOLEAN, dry_run : BOOLEAN, makedirs_fails : BOOLEAN] :
        \* a destination inside (or equal to) the source needs a source directory
        a.dest_in_source => a.source_is_dir }

CliInit ==
    /\ MainIdle
    /\ \E a \in CliArgs : cli = [pc |-> "start", args |-> a]
    /\ matching = Idle /\ finder = Idle /\ migration = Idle /\ counting = Idle
    /\ UnitsIdle

GitmigCliRun ==
    /\ cli.pc = "start"
    /\ cli' = [args |-> cli.args] @@ gitmig_cli_run(cli.args)
    /\ UNCHANGED << main, matching, finder, migration, counting, units >>

CliNext == GitmigCliRun

CliSpec == CliInit /\ [][CliNext]_vars

\* the configuration errors the command line is to refuse
InvalidConfig(a) ==
    LET has_dest == (a.paths = 1 /\ ~a.git_size) \/ a.paths = 2
        source_given == (a.paths = 1 /\ a.git_size) \/ a.paths = 2
    IN  \/ a.paths = 0 /\ ~a.git_size
        \/ a.paths > 2
        \/ a.max_size = "invalid"
        \/ source_given /\ ~a.source_is_dir
        \/ has_dest /\ a.dest = "file"
        \/ has_dest /\ ~a.git_size /\ a.dest_in_source

\* C19: the copier command line exits nonzero before any walk, destination
\* creation or copy exactly when the configuration is invalid; with a valid
\* one (and a destination it can create) it constructs the engine and runs
\* the migration.
C19_AbortIffInvalid ==
    cli.pc = "exited" =>
        IF InvalidConfig(cli.args)
        THEN /\ cli.exit_status # 0 /\ ~cli.dest_created
             /\ ~cli.engine_constructed /\ ~cli.migration_run
        ELSE ~cli.args.makedirs_fails =>
                /\ cli.exit_status = 0
                /\ cli.engine_constructed /\ cli.migration_run

\* C21: with dry-run set the copier writes nothing (no file, no archive, no
\* destination directory), while the scan still runs and the totals report
\* what would have been copied.  On the command line: a dry run creates no
\* destination and, with a valid configuration, runs the migration.
C21_DryRunWritesNothing ==
    (cli.pc = "exited" /\ cli.args.dry_run) =>
        /\ ~cli.dest_created
        /\ ~InvalidConfig(cli.args) => cli.engine_constructed /\ cli.migration_run

\* destination files that were there before the run and have not been touched
OldFiles(dest) == { d \in dest : d[3] = "old" }

\* how many of the first n files of repository i found their destination file
OldAmong(i, n) ==
    Cardinality({ k \in 1..n :
                    <<i, migration.repos[i][k].path, "old">> \in migration.dest })

\* bytes of the destination files written in full
NewBytes ==
    SumOver({ d \in migration.dest : d[3] = "new" },
            [d \in migration.dest |-> (CHOOSE f \in RunFiles : f.path = d[2]).size])

\* C22: with skip-existing set _copy_repo leaves every destination file that
\* already exists unchanged, counts it once in files_skipped_existing and
\* adds nothing for it to the bytes copied or to files_overwritten.
C22_SkipExistingKeepsFiles ==
    /\ [][(migration.skip_existing /\ migration.pc = "copy")
             => OldFiles(migration.dest) \subseteq OldFiles(migration'.dest)]_vars
    /\ []((/\ migration.pc # "idle" /\ migration.skip_existing
           /\ ~migration.use_zip /\ ~migration.dry_run) =>
             /\ migration.files_overwritten = 0
             /\ ~migration.interrupted =>
                   /\ migration.files_skipped_existing =
                         SumOver(migration.completed,
                                 [i \in migration.completed |->
                                     OldAmong(i, Len(migration.repos[i]))])
                         + (IF migration.pc = "copy"
                            THEN OldAmong(migration.idx, migration.j - 1) ELSE 0)
                   /\ migration.total_bytes_copied
                         + (IF migration.pc = "copy" THEN migration.bytes_copied ELSE 0)
                         = NewBytes)

\* f was in the destination, g was not: f is still the old file and counted
\* once as skipped, g was copied and makes up the bytes copied
C22_Witness ==
    /\ migration.pc = "done" /\ migration.skip_existing
    /\ ~migration.use_zip /\ ~migration.dry_run /\ ~migration.interrupted
    /\ Len(migration.repos) = 1 /\ Len(migration.repos[1]) = 2
    /\ migration.dest = { <<1, "f", "old">>, <<1, "g", "new">> }
    /\ migration.files_skipped_existing = 1
    /\ migration.files_overwritten = 0
    /\ migration.total_bytes_copied = 2


(***************************************************************************)
(* Scanning again: the same front-end, the same configuration, the same    *)
(* tree and the same answers of git, up to MaxRuns scans per mode.         *)
(***************************************************************************)
MaxRuns == 2

\* an engine whose second _scan_repo leaves out what the first one listed
GitMigEngine_rescan_remembers(prev, fresh) ==
    [fresh EXCEPT !.files_to_copy = fresh.files_to_copy \ prev.files_to_copy]

\* _scan_repo on an engine that scanned before (prev): files_to_copy and
\* skipped_stats are locals of the call, the counters, preserved_files and
\* extension_stats are attributes of the engine and go on from prev
GitMigEngine_rescan(prev, fresh) ==
    LET exts == DOMAIN prev.extension_stats \cup DOMAIN fresh.extension_stats
        stat(r, x) == IF x \in DOMAIN r.extension_stats THEN r.extension_stats[x]
                      ELSE [count |-> 0, bytes |-> 0]
    IN  [status |-> fresh.status,
         files_to_copy |-> fresh.files_to_copy,
         skipped_stats |-> fresh.skipped_stats,
         symlinks_skipped |-> prev.symlinks_skipped + fresh.symlinks_skipped,
         large_files_skipped |-> prev.large_files_skipped + fresh.large_files_skipped,
         preserved_files |-> prev.preserved_files \cup fresh.preserved_files,
         extension_stats |->
            [x \in exts |-> [count |-> stat(prev, x).count + stat(fresh, x).count,
                             bytes |-> stat(prev, x).bytes + stat(fresh, x).bytes]]]

NoFirst == [status |-> "none", visible |-> {}]

RescanInit ==
    /\ ScanInit({"scan", "rtree", "gitmig"}, GitignoreLines)
    /\ rerun = [pc |-> "scanning", runs |-> NoRun(0), first |-> NoRun(NoFirst)]
    /\ matching = Idle /\ finder = Idle /\ migration = Idle
    /\ counting = Idle /\ cli = Idle /\ UnitsIdle

\* one more scan in raw_mode gave status and the visible set
Scanned(raw_mode, status, visible) ==
    [rerun EXCEPT !.runs[raw_mode] = @ + 1,
                  !.first[raw_mode] =
                      IF rerun.runs[raw_mode] = 0
                      THEN [status |-> status, visible |-> visible] ELSE @]

\* collect_files_with_pruning(root, raw_mode, None, max_depth), once more
RescanCollect ==
    /\ rerun.pc = "scanning" /\ command = "scan"
    /\ \E raw_mode \in BOOLEAN :
          LET r == collect_files_with_pruning(tree, raw_mode, << >>, max_depth)
          IN  /\ rerun.runs[raw_mode] < MaxRuns
              /\ scan_result' = [scan_result EXCEPT ![raw_mode] = r]
              /\ calls' = [calls EXCEPT ![raw_mode] =
                    collect_files_with_pruning_calls(tree, raw_mode, max_depth)]
              /\ rerun' = Scanned(raw_mode, r.status, r.all_relpaths \ r.ignored_set)
    /\ UNCHANGED << env, visible_paths, locr_files, gitmig,
                    matching, finder, migration, counting, cli, units >>

\* self.visible_paths = self._scan_repo(), once more
RescanTree ==
    /\ rerun.pc = "scanning" /\ command = "rtree"
    /\ \E raw_mode \in BOOLEAN :
          LET r == RepoTreeVisualizer_scan_repo(tree, raw_mode, max_depth)
          IN  /\ rerun.runs[raw_mode] < MaxRuns
              /\ visible_paths' = [visible_paths EXCEPT ![raw_mode] = r]
              /\ calls' = [calls EXCEPT ![raw_mode] =
                    RepoTreeVisualizer_scan_repo_calls(tree, raw_mode, max_depth)]
              /\ rerun' = Scanned(raw_mode, r.status, r.paths)
    /\ UNCHANGED << env, scan_result, locr_files, gitmig,
                    matching, finder, migration, counting, cli, units >>

\* engine._scan_repo(repo_name, repo_path), once more on the same engine
RescanCopier ==
    /\ rerun.pc = "scanning" /\ command = "gitmig"
    /\ \E raw_mode \in BOOLEAN :
          LET fresh == GitMigEngine_scan_repo(tree, raw_mode, max_size, env_only,
                                              ext_filter, << >>, FALSE)
              r == GitMigEngine_rescan(gitmig[raw_mode], fresh)
          IN  /\ rerun.runs[raw_mode] < MaxRuns
              /\ gitmig' = [gitmig EXCEPT ![raw_mode] = r]
              /\ calls' = [calls EXCEPT ![raw_mode] =
                    GitMigEngine_scan_repo_calls(tree, raw_mode)]
              /\ rerun' = Scanned(raw_mode, r.status, r.files_to_copy)
    /\ UNCHANGED << env, scan_result, visible_paths, locr_files,
                    matching, finder, migration, counting, cli, units >>

RescanNext == RescanCollect \/ RescanTree \/ RescanCopier

RescanSpec == RescanInit /\ [][RescanNext]_vars

\* what the latest scan in raw_mode made visible, by the front-end that ran
LatestVisible(raw_mode) ==
    IF command = "scan"
    THEN [status |-> scan_result[raw_mode].status,
          visible |-> scan_result[raw_mode].all_relpaths
                          \ scan_result[raw_mode].ignored_set]
    ELSE IF command = "rtree"
    THEN [status |-> visible_paths[raw_mode].status,
          visible |-> visible_paths[raw_mode].paths]
    ELSE [status |-> gitmig[raw_mode].status,
          visible |-> gitmig[raw_mode].files_to_copy]

C24_OnlyFilesSentToAuthority ==
    \A raw_mode \in BOOLEAN :
        \A p \in calls[raw_mode].sent : ~endswith(p, <<SEP>>)

\* a path with a component .git and something below it
InsideDotGit(p) ==
    LET parts == split(p)
    IN  \E i \in 1..(Len(parts) - 1) :
            /\ parts[i] = <<".", "g", "i", "t">>
            /\ \E k \in (i + 1)..Len(parts) : Len(parts[k]) > 0

\* the directories named .git that a walk without exclusions comes to: none
\* of their ancestors is itself named .git
DotGitDirs ==
    { d \in tree : /\ d.kind = "dir" /\ Name(d) = <<".", "g", "i", "t">>
                   /\ \A i \in 1..(Len(d.path) - 1) : d.path[i] # <<".", "g", "i", "t">> }

\* the directory holding d is walked under the depth limit
HolderWalked(d) == ~(max_depth > -1 /\ Len(d.path) - 1 >= max_depth)

\* C30: visible_paths of RepoTreeVisualizer never holds a path strictly inside
\* a directory named .git, raw mode or not; the entry of the .git directory
\* itself is there exactly when raw mode is set and the directory holding it
\* is within the depth limit
C30_DotGitOnlyInRawMode ==
    \A raw_mode \in BOOLEAN :
        visible_paths[raw_mode].status = "done" =>
            /\ \A p \in visible_paths[raw_mode].paths : ~InsideDotGit(p)
            /\ \A d \in DotGitDirs :
                  DirRel(d) \in visible_paths[raw_mode].paths
                      <=> (raw_mode /\ HolderWalked(d))

\* a raw scan of a tree with Git metadata: .git/ is listed, .git/config is not
C30_Witness ==
    /\ visible_paths[TRUE].status = "done"
    /\ <<".", "g", "i", "t", "/">> \in visible_paths[TRUE].paths
    /\ \E f \in tree : FileRel(f) = <<".", "g", "i", "t", "/", "c", "o", "n", "f", "i", "g">>
    /\ <<".", "g", "i", "t", "/", "c", "o", "n", "f", "i", "g">> \notin visible_paths[TRUE].paths


\* C25: on a root without Git metadata the non-raw RepoTreeVisualizer hides a
\* candidate exactly when simple_gitignore_match, given the rules that
\* compile_gitignore_patterns makes of the same .gitignore, says it is
\* ignored (so a rule ending in '/' hides directories only, and a rule
\* starting with '!' shows again what an earlier rule hid); the entry
\* .gitignore itself is always shown
C25_TreeFallbackAgreesWithMatcher ==
    (~is_git_repo(tree) /\ visible_paths[FALSE].status = "done") =>
        LET candidates ==
                RepoTreeVisualizer_collect_candidates(tree, FALSE, max_depth, << >>)
        IN  \A p \in candidates \ ForcedGitignore :
                p \notin visible_paths[FALSE].paths <=> p \in FallbackIgnored({p})


(***************************************************************************)
(* Scans of roots whose .gitignore may name a directory that no built-in   *)
(* exclusion prunes.                                                       *)
(***************************************************************************)
\* a rule that names the directory src
DirectoryRules == { <<"s", "r", "c">> }

ClosureInit ==
    /\ ScanInit({"scan", "rtree"}, GitignoreLines \cup DirectoryRules)
    /\ matching = Idle /\ finder = Idle /\ migration = Idle
    /\ counting = Idle /\ cli = Idle /\ rerun = Idle /\ UnitsIdle

ClosureNext == CollectFilesWithPruning \/ RepoTreeVisualizerInit

ClosureSpec == ClosureInit /\ [][ClosureNext]_vars

\* the directory entries above a path, the root left out
Ancestors(p) == { SubSeq(p, 1, i) : i \in { k \in 1..(Len(p) - 1) : p[k] = SEP } }

ClosedUnderParents(paths) == \A p \in paths : Ancestors(p) \subseteq paths

\* git reports what lies below an ignored directory as ignored too
AuthorityConsistent ==
    \A d \in git_ignored :
        endswith(d, <<SEP>>) =>
            \A q \in GitSubjects : startswith(q, d) => q \in git_ignored

\* C28: with every ancestor directory of a visible path visible too: the
\* candidates minus the ignored set of collect_files_with_pruning and
\* visible_paths of RepoTreeVisualizer are closed under parents, whether git
\* resolved the ignored paths or the fallback matcher did
C28_VisibleClosedUnderParents ==
    AuthorityConsistent =>
        \A raw_mode \in BOOLEAN :
            /\ scan_result[raw_mode].status = "done" =>
                  ClosedUnderParents(Visible(scan_result[raw_mode]))
            /\ visible_paths[raw_mode].status = "done" =>
                  ClosedUnderParents(visible_paths[raw_mode].paths)


(***************************************************************************)
(* git_check_ignore on a list of paths.  Here a path is the tuple of the   *)
(* code points of its characters (ord(c)), so that 0 is the null byte, and *)
(* what the process reads on its standard input is a tuple of bytes.       *)
(***************************************************************************)
NUL == 0
TAB == 9
NEWLINE == 10
FirstPrintable == 32

\* most paths in one call
MaxBatch == 3

\* low and high surrogates, which str.encode("utf-8") rejects
IsSurrogate(c) == c >= 55296 /\ c <= 57343

\* "a", "a\tb", "a\n" (safe); "a\0b", "\r", "\x1fa" (unsafe); "\x7f", "é", ""
\* (safe), and "\udc80", a name that os.walk gives for undecodable bytes
ResolverPaths ==
    { <<97>>, <<97, 9, 98>>, <<97, 10>>, <<97, 0, 98>>, <<13>>, <<31, 97>>,
      <<127>>, <<233>>, << >>, <<56448>> }

\* "\0" not in p and all(ord(c) >= 32 or c in "\t\n" for c in p)
is_safe_path(p) ==
    /\ \A i \in 1..Len(p) : p[i] # NUL
    /\ \A i \in 1..Len(p) : p[i] >= FirstPrintable \/ p[i] \in { TAB, NEWLINE }

\* "\0".join(paths)
RECURSIVE join_nul(_)
join_nul(paths) ==
    IF Len(paths) = 0 THEN << >>
    ELSE IF Len(paths) = 1 THEN paths[1]
    ELSE paths[1] \o <<NUL>> \o join_nul(Tail(paths))

\* the UTF-8 bytes of one code point below 65536
utf8_char(c) ==
    IF c < 128 THEN <<c>>
    ELSE IF c < 2048 THEN <<192 + (c \div 64), 128 + (c % 64)>>
    ELSE <<224 + (c \div 4096), 128 + ((c \div 64) % 64), 128 + (c % 64)>>

\* text.encode("utf-8"), for a text without surrogates
RECURSIVE encode_utf8(_)
encode_utf8(text) ==
    IF Len(text) = 0 THEN << >>
    ELSE utf8_char(text[1]) \o encode_utf8(Tail(text))

ResolverOutcomes == { "ok", "missing", "timeout", "badexit" }

NotStarted(raised) == [started |-> FALSE, stdin |-> << >>, raised |-> raised, paths |-> {}]

\* a resolver that hands every path it was given to the process
git_check_ignore_call_unfiltered(relpaths, outcome, answer) ==
    IF Len(relpaths) = 0 THEN NotStarted(FALSE)
    ELSE LET input == join_nul(relpaths)
         IN  IF \E i \in 1..Len(input) : IsSurrogate(input[i]) THEN NotStarted(TRUE)
             ELSE IF outcome = "missing" THEN NotStarted(FALSE)
             ELSE [started |-> TRUE, stdin |-> encode_utf8(input), raised |-> FALSE,
                   paths |-> IF outcome = "ok"
                             THEN { relpaths[i] : i \in 1..Len(relpaths) } \cap answer
                             ELSE {}]

\* git_check_ignore(repo_path, relpaths): whether the process was started,
\* the bytes it read, and what the call gave; answer is what git prints for
\* outcome "ok", "missing" is FileNotFoundError from subprocess.run
git_check_ignore_call(relpaths, outcome, answer) ==
    IF Len(relpaths) = 0 THEN NotStarted(FALSE)
    ELSE LET safe_paths == SelectSeq(relpaths, is_safe_path)
             input == join_nul(safe_paths)
         IN  IF Len(safe_paths) = 0 THEN NotStarted(FALSE)
             ELSE IF \E i \in 1..Len(input) : IsSurrogate(input[i]) THEN NotStarted(TRUE)
             ELSE IF outcome = "missing" THEN NotStarted(FALSE)
             ELSE [started |-> TRUE, stdin |-> encode_utf8(input), raised |-> FALSE,
                   paths |-> IF outcome = "ok"
                             THEN { safe_paths[i] : i \in 1..Len(safe_paths) } \cap answer
                             ELSE {}]

ResolverInit ==
    /\ MainIdle
    /\ \E relpaths \in SeqsUpTo(ResolverPaths, MaxBatch) :
       \E outcome \in ResolverOutcomes :
       \E answer \in { {}, { <<97>>, <<233>> } } :
          /\ outcome # "ok" => answer = {}
          /\ resolving = [pc |-> "start", relpaths |-> relpaths,
                          outcome |-> outcome, answer |-> answer]
    /\ matching = Idle /\ finder = Idle /\ migration = Idle
    /\ counting = Idle /\ cli = Idle
    /\ reading = Idle /\ analysing = Idle

GitCheckIgnore ==
    /\ resolving.pc = "start"
    /\ resolving' =
          [pc |-> "returned", relpaths |-> resolving.relpaths,
           outcome |-> resolving.outcome, answer |-> resolving.answer]
          @@ git_check_ignore_call(resolving.relpaths, resolving.outcome,
                                   resolving.answer)
    /\ UNCHANGED << main, matching, finder, migration, counting, cli,
                    reading, analysing >>

ResolverNext == GitCheckIgnore

ResolverSpec == ResolverInit /\ [][ResolverNext]_vars

\* a path with a null byte or a control character other than tab and newline
Unsafe(p) ==
    \E i \in 1..Len(p) : p[i] = 0 \/ (p[i] < 32 /\ p[i] # 9 /\ p[i] # 10)

\* the paths of a list that are not unsafe, in the order of the list
RECURSIVE SafeOnes(_)
SafeOnes(paths) ==
    IF Len(paths) = 0 THEN << >>
    ELSE IF Unsafe(paths[1]) THEN SafeOnes(Tail(paths))
    ELSE <<paths[1]>> \o SafeOnes(Tail(paths))

\* the pieces of a byte string between its null bytes
RECURSIVE SplitNul(_)
SplitNul(bytes) ==
    LET hits == { i \in 1..Len(bytes) : bytes[i] = 0 }
    IN  IF hits = {} THEN <<bytes>>
        ELSE LET i == CHOOSE k \in hits : \A j \in hits : k <= j
             IN  <<SubSeq(bytes, 1, i - 1)>> \o SplitNul(SubSeq(bytes, i + 1, Len(bytes)))

\* C26: git_check_ignore starts the process only when a safe path remains,
\* and what the process reads is, piece by piece between null bytes, the
\* UTF-8 text of the safe paths in the order they were given: no piece comes
\* from a path with a null byte or a control character below 32 other than
\* tab and newline
C26_OnlySafePathsSent ==
    resolving.pc = "returned" =>
        LET safe == SafeOnes(resolving.relpaths)
        IN  /\ Len(safe) = 0 => ~resolving.started
            /\ resolving.started =>
                  /\ Len(safe) > 0
                  /\ SplitNul(resolving.stdin) =
                        [i \in 1..Len(safe) |-> encode_utf8(safe[i])]
                  /\ \A i \in 1..Len(resolving.stdin) :
                        resolving.stdin[i] >= 32 \/ resolving.stdin[i] \in { 0, 9, 10 }

\* a call with an unsafe path between two safe ones: the process read the two
\* safe ones, in order, and nothing of the unsafe one
C26_Witness ==
    /\ resolving.pc = "returned"
    /\ resolving.relpaths = << <<97, 9, 98>>, <<97, 0, 98>>, <<233>> >>
    /\ resolving.started
    /\ resolving.stdin = <<97, 9, 98, 0, 195, 169>>


(***************************************************************************)
(* compile_gitignore_patterns on a file whose reading may fail.            *)
(***************************************************************************)
ReadFailures == { "none", "IOError", "UnicodeDecodeError" }

\* compile_gitignore_patterns(gitignore_path) on an existing file of these
\* lines: with a failure the loop body ran for the first `read` lines before
\* the exception reached "except (IOError, UnicodeDecodeError): pass"
compile_gitignore_patterns_reading(lines, failure, read) ==
    [raised |-> FALSE,
     patterns |-> IF failure = "none" THEN compile_lines(lines)
                  ELSE compile_lines(SubSeq(lines, 1, read))]

ReaderInit ==
    /\ MainIdle
    /\ \E lines \in SeqsUpTo(GitignoreLines, MaxMatchRules) :
       \E failure \in ReadFailures :
       \E read \in 0..Len(lines) :
          /\ failure = "none" => read = Len(lines)
          /\ reading = [pc |-> "start", lines |-> lines,
                        failure |-> failure, read |-> read]
    /\ matching = Idle /\ finder = Idle /\ migration = Idle
    /\ counting = Idle /\ cli = Idle
    /\ resolving = Idle /\ analysing = Idle

ReadAndCompile ==
    /\ reading.pc = "start"
    /\ reading' =
          [pc |-> "returned", lines |-> reading.lines,
           failure |-> reading.failure, read |-> reading.read]
          @@ compile_gitignore_patterns_reading(reading.lines, reading.failure,
                                                reading.read)
    /\ UNCHANGED << main, matching, finder, migration, counting, cli,
                    resolving, analysing >>

ReaderNext == ReadAndCompile

ReaderSpec == ReaderInit /\ [][ReaderNext]_vars

\* C27: when reading the ignore file fails with an encoding or an I/O error,
\* at the first line or after some lines were read, compile_gitignore_patterns
\* raises nothing and returns no rule at all
C27_ReadFailureGivesNoRules ==
    (reading.pc = "returned" /\ reading.failure # "none") =>
        /\ ~reading.raised
        /\ reading.patterns = << >>


(***************************************************************************)
(* LocrEngine._analyze_file, one line of the file at a time.               *)
(***************************************************************************)
\* most lines in one analysed file
MaxLines == 3

\* lines of a Python, a JavaScript and a Markdown file
AnalysisLines(ext) ==
    IF ext = <<".", "p", "y">>
    THEN { << >>, <<"x">>, <<"#", " ", "c">>, <<"\"", "\"", "\"">>,
           <<"\"", "\"", "\"", "d", "\"", "\"", "\"">>,
           <<" ", "a", " ", "\"", "\"", "\"">> }
    ELSE IF ext = <<".", "j", "s">>
    THEN { <<" ">>, <<"y">>, <<"/", "/", " ", "z">>, <<"/", "*", " ", "a">>, <<" ", "b", " ", "*", "/">>, <<"/", "*", " ", "c", " ", "*", "/", " ", "y">> }
    ELSE { << >>, <<"#", " ", "t">>, <<"/", "*", " ", "a">> }

\* the body of the loop "for line in f": c holds blank, comment, code and
\* in_block
analyze_line_always_enters(line, lang_def, c) ==
    LET stripped == strip(line)
        single == lang_def.single
        m_start == lang_def.m_start
        m_end == lang_def.m_end
    IN  IF Len(stripped) = 0 THEN [c EXCEPT !.blank = @ + 1]
        ELSE IF c.in_block
        THEN [c EXCEPT !.comment = @ + 1,
                       !.in_block = ~(Len(m_end) > 0 /\ Contains(line, m_end))]
        ELSE IF Len(m_start) > 0 /\ startswith(stripped, m_start)
        THEN [c EXCEPT !.comment = @ + 1, !.in_block = Len(m_end) > 0]
        ELSE IF Len(single) > 0 /\ startswith(stripped, single)
        THEN [c EXCEPT !.comment = @ + 1]
        ELSE [c EXCEPT !.code = @ + 1]

analyze_line(line, lang_def, c) ==
    LET stripped == strip(line)
        single == lang_def.single
        m_start == lang_def.m_start
        m_end == lang_def.m_end
    IN  IF Len(stripped) = 0 THEN [c EXCEPT !.blank = @ + 1]
        ELSE IF c.in_block
        THEN [c EXCEPT !.comment = @ + 1,
                       !.in_block = ~(Len(m_end) > 0 /\ Contains(line, m_end))]
        ELSE IF Len(m_start) > 0 /\ startswith(stripped, m_start)
        THEN [c EXCEPT !.comment = @ + 1,
                       !.in_block =
                           /\ Len(m_end) > 0
                           /\ ~Contains(SubSeq(stripped, Len(m_start) + 1,
                                               Len(stripped)), m_end)]
        ELSE IF Len(single) > 0 /\ startswith(stripped, single)
        THEN [c EXCEPT !.comment = @ + 1]
        ELSE [c EXCEPT !.code = @ + 1]

AnalysisInit ==
    /\ MainIdle
    /\ \E ext \in { <<".", "p", "y">>, <<".", "j", "s">>, <<".", "m", "d">> } :
       \E lines \in SeqsUpTo(AnalysisLines(ext), MaxLines) :
          analysing = [pc |-> "reading", ext |-> ext, lines |-> lines, i |-> 0,
                       c |-> [blank |-> 0, comment |-> 0, code |-> 0,
                              in_block |-> FALSE],
                       result |-> << >>]
    /\ matching = Idle /\ finder = Idle /\ migration = Idle
    /\ counting = Idle /\ cli = Idle
    /\ resolving = Idle /\ reading = Idle

AnalysisIdle ==
    UNCHANGED << main, matching, finder, migration, counting, cli,
                 resolving, reading >>

\* one turn of "for line in f"
AnalyzeLine ==
    /\ analysing.pc = "reading" /\ analysing.i < Len(analysing.lines)
    /\ analysing' =
          [analysing EXCEPT
              !.i = @ + 1,
              !.c = analyze_line(analysing.lines[analysing.i + 1],
                                 LangDef(analysing.ext), @)]
    /\ AnalysisIdle

\* the file is read through: return blank, comment, code
AnalyzeReturn ==
    /\ analysing.pc = "reading" /\ analysing.i = Len(analysing.lines)
    /\ analysing' =
          [analysing EXCEPT
              !.pc = "returned",
              !.result = << analysing.c.blank, analysing.c.comment,
                            analysing.c.code >>]
    /\ AnalysisIdle

\* open or a read raises OSError: return 0, 0, 0
AnalyzeOSError ==
    /\ analysing.pc = "reading"
    /\ analysing' = [analysing EXCEPT !.pc = "returned", !.result = << 0, 0, 0 >>]
    /\ AnalysisIdle

AnalysisNext == AnalyzeLine \/ AnalyzeReturn \/ AnalyzeOSError

AnalysisSpec == AnalysisInit /\ [][AnalysisNext]_vars

\* the line a turn of the loop is about to take
NextLine == analysing.lines[analysing.i + 1]

LineTaken ==
    /\ analysing.pc = "reading" /\ analysing'.pc = "reading"
    /\ analysing'.i = analysing.i + 1

\* how much the three counters grew in a step
Grew(field) == analysing'.c[field] - analysing.c[field]

Opener == LangDef(analysing.ext).m_start

Terminator == LangDef(analysing.ext).m_end

\* the line starts, leading blanks aside, with the opener and has no
\* terminator after it
OpensBlock(line) ==
    /\ Len(Opener) > 0 /\ Len(Terminator) > 0
    /\ startswith(strip(line), Opener)
    /\ ~Contains(SubSeq(strip(line), Len(Opener) + 1, Len(strip(line))), Terminator)

\* a non-blank line that holds the terminator
ClosesBlock(line) == Len(strip(line)) > 0 /\ Contains(line, Terminator)

\* C29: while _analyze_file reads, blank + comment + code is the number of
\* lines read so far, inside and outside a block comment, each line adding one
\* to exactly one of the three; a block comment is entered only by a line
\* that starts with the opener and has no terminator after it, and once
\* inside it lasts until the first non-blank line holding the terminator,
\* which is still counted as comment and ends it
C29_EveryLineCountedOnce ==
    /\ [](analysing.pc = "reading" =>
            analysing.c.blank + analysing.c.comment + analysing.c.code = analysing.i)
    /\ [][LineTaken =>
            /\ { Grew("blank"), Grew("comment"), Grew("code") } = { 0, 1 }
            /\ Grew("blank") + Grew("comment") + Grew("code") = 1
            /\ (~analysing.c.in_block /\ analysing'.c.in_block) =>
                  OpensBlock(NextLine) /\ Grew("comment") = 1
            /\ analysing.c.in_block =>
                  /\ ClosesBlock(NextLine) =>
                        ~analysing'.c.in_block /\ Grew("comment") = 1
                  /\ ~ClosesBlock(NextLine) => analysing'.c.in_block]_vars

\* a JavaScript file read through "/* a", a blank line inside the block and
\* " b */": one blank and two comment lines, the block left again
C29_Witness ==
    /\ analysing.pc = "reading"
    /\ analysing.lines = << <<"/", "*", " ", "a">>, <<" ">>, <<" ", "b", " ", "*", "/">> >>
    /\ analysing.i = 3
    /\ analysing.c = [blank |-> 1, comment |-> 2, code |-> 0, in_block |-> FALSE]

====
